---- MODULE Spec2Model ----
(***************************************************************************)
(* A model of the name-synthesis core of mkname: character               *)
(* classification, compound names, syllable splitting, selection from a    *)
(* pool of names, and the rolls each operation consumes.                   *)
(*                                                                         *)
(* A name is a sequence of one-character strings.  Every operation is an   *)
(* action that draws its arguments and the results of its rolls from       *)
(* bounded sets and records the arguments, the log of the rolls made and   *)
(* the value returned (or the exception raised).                           *)
(***************************************************************************)
EXTENDS Integers, Sequences, FiniteSets, TLC

VARIABLES op, mod_name, root_name, name, names, num_syllables,
          consonants, vowels, mod_letters, char_map, casefold, rolls, result

\* The arguments of add_punctuation.
VARIABLES punctuation, cap_before, cap_after, punct_index

punct_vars == <<punctuation, cap_before, cap_after, punct_index>>

\* The file system get_config and get_db look at, and their arguments:
\* the configuration files with what they hold, the directories, the
\* database files with their rows, whether this Python reads TOML, the
\* paths given, and the files get_config has read, in order.
VARIABLES files, dirs, tables, toml_ok, path_arg, conf_arg, loaded

conf_vars == <<files, dirs, tables, toml_ok, path_arg, conf_arg, loaded>>

\* The database connections made, the tables and the connections as they
\* were before the last call on a database, the arguments of that call
\* and the number of calls made.
VARIABLES connections, prior, args, calls

store_vars == <<connections, prior, args, calls>>

\* The variables that no operation on names touches.
late_vars == <<conf_vars, store_vars>>

\* The variables that the operations on names other than add_punctuation
\* leave alone.
other_vars == <<punct_vars, late_vars>>

\* The variables of the operations on names, their call and result apart.
name_vars == <<mod_name, root_name, name, names, num_syllables, consonants,
               vowels, mod_letters, char_map, casefold, rolls, punct_vars>>

vars == <<op, mod_name, root_name, name, names, num_syllables,
          consonants, vowels, mod_letters, char_map, casefold, rolls, result,
          other_vars>>

----------------------------------------------------------------------------
(* Bounds of the model. *)

\* Longest mod name enumerated for compound_names.
MaxModLen == 2

\* Longest root name enumerated for compound_names.
MaxRootLen == 3

\* Longest name enumerated for split_into_syllables.
MaxSylLen == 5

\* Longest pool of names.
MaxPool == 2

\* Largest number of syllables asked of build_from_syllables.
MaxSyllables == 2

\* Longest name enumerated for double_letter, garble and
\* translate_characters.
MaxNameLen == 3

\* Longest name enumerated for add_letters.
MaxAddLen == 2

----------------------------------------------------------------------------
(* Characters and their case. *)

\* The lowercase ASCII letters and, index by index, their uppercase.
LowerLetters ==
    <<"a", "b", "c", "d", "e", "f", "g", "h", "i", "j", "k", "l", "m",
      "n", "o", "p", "q", "r", "s", "t", "u", "v", "w", "x", "y", "z">>
UpperLetters ==
    <<"A", "B", "C", "D", "E", "F", "G", "H", "I", "J", "K", "L", "M",
      "N", "O", "P", "Q", "R", "S", "T", "U", "V", "W", "X", "Y", "Z">>

LetterIndex == DOMAIN LowerLetters

IsLower(c) == \E i \in LetterIndex : LowerLetters[i] = c
IsUpper(c) == \E i \in LetterIndex : UpperLetters[i] = c

\* str.isalpha for one character; every cased character here is a letter.
IsCased(c) == IsLower(c) \/ IsUpper(c)

\* str.lower for one character.
ToLower(c) ==
    IF IsUpper(c)
    THEN LowerLetters[CHOOSE i \in LetterIndex : UpperLetters[i] = c]
    ELSE c

\* str.upper for one character.
ToUpper(c) ==
    IF IsLower(c)
    THEN UpperLetters[CHOOSE i \in LetterIndex : LowerLetters[i] = c]
    ELSE c

\* str.casefold: for the ASCII characters of the model, lowercase each one.
Casefold(s) == [i \in 1..Len(s) |-> ToLower(s[i])]

\* Only the first character uppercased, the others left as they are.
TitleFirstOnly(s) ==
    [i \in 1..Len(s) |-> IF i = 1 THEN ToUpper(s[i]) ELSE s[i]]

\* str.title: a cased character that follows a cased character is
\* lowercased, any other cased character is uppercased.
Title(s) ==
    [i \in 1..Len(s) |->
        IF i > 1 /\ IsCased(s[i - 1]) THEN ToLower(s[i]) ELSE ToUpper(s[i])]

----------------------------------------------------------------------------
(* Values returned by the operations. *)

Ok(v) == [status |-> "ok", value |-> v]
Raise(e) == [status |-> e, value |-> <<>>]
NoResult == [status |-> "none", value |-> <<>>]

\* One roll: the die rolled and the value it gave.
Rolled(sides, value) == [sides |-> sides, value |-> value]

----------------------------------------------------------------------------
(* compound_names *)

RECURSIVE ScanRun(_, _, _)
\* The while loop of get_change_index, from a given index (0-based).
ScanRun(s, letters, index) ==
    IF index < Len(s) /\ s[index + 1] \in letters
    THEN ScanRun(s, letters, index + 1)
    ELSE index

\* A scan that starts at the first character.
GetChangeIndexFromZero(s, letters) == ScanRun(s, letters, 0)

\* get_change_index: how many of the starting characters form the run.
GetChangeIndex(s, letters) == ScanRun(s, letters, 1)

\* s[i:] in Python, i 0-based; empty when i >= len(s).
From(s, i) == SubSeq(s, i + 1, Len(s))

\* s[0:i - 1]: a slice that stops one character early.
UpToExclusive(s, i) == SubSeq(s, 1, (IF i < Len(s) THEN i ELSE Len(s)) - 1)

\* s[0:i] in Python.
UpTo(s, i) == SubSeq(s, 1, IF i < Len(s) THEN i ELSE Len(s))

\* compound_names that never removes the leading run of the root name.
CompoundNamesKeepsRoot(mod, root, cons, vows) ==
    LET m == Casefold(mod)
        r == Casefold(root)
    IN  IF Len(r) = 0 \/ Len(m) = 0
        THEN Raise("IndexError")
        ELSE IF m[1] \notin vows
        THEN Ok(Title(UpTo(m, GetChangeIndex(m, cons)) \o r))
        ELSE Ok(Title(UpTo(m, GetChangeIndex(m, vows)) \o r))

\* compound_names that always removes the leading run of the root name.
CompoundNamesStripsRoot(mod, root, cons, vows) ==
    LET m == Casefold(mod)
        r == Casefold(root)
    IN  IF Len(r) = 0 \/ Len(m) = 0
        THEN Raise("IndexError")
        ELSE IF m[1] \notin vows
        THEN Ok(Title(UpTo(m, GetChangeIndex(m, cons))
                      \o From(r, GetChangeIndex(r, cons))))
        ELSE Ok(Title(UpTo(m, GetChangeIndex(m, vows))
                      \o From(r, GetChangeIndex(r, vows))))

CompoundNames(mod, root, cons, vows) ==
    LET m == Casefold(mod)
        r == Casefold(root)
    IN  IF Len(r) = 0 \/ Len(m) = 0
        THEN Raise("IndexError")
        ELSE IF r[1] \notin vows /\ m[1] \notin vows
        THEN Ok(Title(UpTo(m, GetChangeIndex(m, cons))
                      \o From(r, GetChangeIndex(r, cons))))
        ELSE IF r[1] \in vows /\ m[1] \notin vows
        THEN Ok(Title(UpTo(m, GetChangeIndex(m, cons)) \o r))
        ELSE IF r[1] \in vows /\ m[1] \in vows
        THEN Ok(Title(UpTo(m, GetChangeIndex(m, vows))
                      \o From(r, GetChangeIndex(r, vows))))
        ELSE IF r[1] \notin vows /\ m[1] \in vows
        THEN Ok(Title(UpTo(m, GetChangeIndex(m, vows)) \o r))
        ELSE Raise("ValueError")

----------------------------------------------------------------------------
(* split_into_syllables *)

\* calc_cv_pattern: 'c', 'v' or 'x' for each character of the folded name.
CalcCvPattern(s, cons, vows) ==
    [i \in 1..Len(s) |->
        IF ToLower(s[i]) \in cons THEN "c"
        ELSE IF ToLower(s[i]) \in vows THEN "v"
        ELSE "x"]

\* The smaller half of the run stays with the syllable before it.
KeptBeforeFloor(k) == k \div 2

\* The whole run stays with the syllable before it.
KeptBeforeAll(k) == k

\* How many characters of a run of k non-vowels between two runs of
\* vowels stay with the syllable before it.
KeptBefore(k) == (k + 1) \div 2

RECURSIVE SyllableEnds(_, _, _)
\* The indices after which a syllable ends, from index i on, when the
\* last vowel before i is at index seen (0 when there is none): one inside
\* every run of non-vowels that has vowels on both sides.
SyllableEnds(pattern, i, seen) ==
    IF i > Len(pattern) THEN {}
    ELSE IF pattern[i] # "v" THEN SyllableEnds(pattern, i + 1, seen)
    ELSE IF seen > 0 /\ seen < i - 1
    THEN {seen + KeptBefore(i - 1 - seen)} \cup SyllableEnds(pattern, i + 1, i)
    ELSE SyllableEnds(pattern, i + 1, i)

RECURSIVE CutBefore(_, _, _)
\* The pieces of s, without the character each piece would end with.
CutBefore(s, ends, start) ==
    LET later == {e \in ends : e >= start}
    IN  IF later = {}
        THEN <<SubSeq(s, start, Len(s))>>
        ELSE LET e == CHOOSE x \in later : \A y \in later : x <= y
             IN  <<SubSeq(s, start, e - 1)>> \o CutBefore(s, ends, e + 1)

RECURSIVE CutAt(_, _, _)
\* The pieces of s from index start on, cut after each index of ends.
CutAt(s, ends, start) ==
    LET later == {e \in ends : e >= start}
    IN  IF later = {}
        THEN <<SubSeq(s, start, Len(s))>>
        ELSE LET e == CHOOSE x \in later : \A y \in later : x <= y
             IN  <<SubSeq(s, start, e)>> \o CutAt(s, ends, e + 1)

SplitIntoSyllables(s, cons, vows) ==
    CutAt(s, SyllableEnds(CalcCvPattern(s, cons, vows), 1, 0), 1)

----------------------------------------------------------------------------
(* select_name, build_compound_name, build_from_syllables.  Each takes the *)
(* values its rolls will give as a stream and returns, with its value, the *)
(* log of the rolls it made and the rest of the stream.                    *)

\* What the die does on one roll: it gives a value, or it raises.
Gives(v) == [raises |-> FALSE, value |-> v]

DiceRaises == [raises |-> TRUE, value |-> 0]

\* A result that failed with the error e after the rolls in log.
Failed(e, log, rest) ==
    [status |-> e, value |-> <<>>, log |-> log, rest |-> rest]

\* utility.roll(f'1d{sides}'): the next outcome of the stream.
Roll(sides, stream) ==
    IF Head(stream).raises
    THEN [status |-> "DiceError", value |-> 0, log |-> <<>>,
          rest |-> Tail(stream)]
    ELSE [status |-> "ok", value |-> Head(stream).value,
          log |-> <<Rolled(sides, Head(stream).value)>>,
          rest |-> Tail(stream)]

\* A subscript that gives the empty string where Python raises.
SubscriptOrEmpty(pool, index, log, rest) ==
    IF index >= 0 /\ index < Len(pool)
    THEN [status |-> "ok", value |-> pool[index + 1].name,
          log |-> log, rest |-> rest]
    ELSE [status |-> "ok", value |-> <<>>, log |-> log, rest |-> rest]

\* names[index] of Python: an index below zero counts from the end, and
\* an index outside -len..len-1 raises IndexError.
Subscript(pool, index, log, rest) ==
    IF index >= 0 /\ index < Len(pool)
    THEN [status |-> "ok", value |-> pool[index + 1].name,
          log |-> log, rest |-> rest]
    ELSE IF index < 0 /\ index >= 0 - Len(pool)
    THEN [status |-> "ok", value |-> pool[Len(pool) + index + 1].name,
          log |-> log, rest |-> rest]
    ELSE Failed("IndexError", log, rest)

\* select_name that uses the value rolled as a 0-based index.
SelectNameNoOffset(pool, stream) ==
    LET r == Roll(Len(pool), stream)
        index == r.value
    IN  IF r.status # "ok"
        THEN Failed(r.status, r.log, r.rest)
        ELSE Subscript(pool, index, r.log, r.rest)

SelectName(pool, stream) ==
    LET r == Roll(Len(pool), stream)
        index == r.value - 1
    IN  IF r.status # "ok"
        THEN Failed(r.status, r.log, r.rest)
        ELSE Subscript(pool, index, r.log, r.rest)

\* build_compound_name that passes the second name selected as the mod
\* name.
BuildCompoundNameSwapped(pool, cons, vows, stream) ==
    LET root == SelectName(pool, stream)
        mod == SelectName(pool, root.rest)
        compound == CompoundNames(mod.value, root.value, cons, vows)
    IN  IF root.status # "ok"
        THEN root
        ELSE IF mod.status # "ok"
        THEN Failed(mod.status, root.log \o mod.log, mod.rest)
        ELSE [status |-> compound.status, value |-> compound.value,
              log |-> root.log \o mod.log, rest |-> mod.rest]

BuildCompoundName(pool, cons, vows, stream) ==
    LET root == SelectName(pool, stream)
        mod == SelectName(pool, root.rest)
        compound == CompoundNames(root.value, mod.value, cons, vows)
    IN  IF root.status # "ok"
        THEN root
        ELSE IF mod.status # "ok"
        THEN Failed(mod.status, root.log \o mod.log, mod.rest)
        ELSE [status |-> compound.status, value |-> compound.value,
              log |-> root.log \o mod.log, rest |-> mod.rest]

\* The value and the log of a first step put before those of the steps
\* that follow it; an error in the steps that follow is the outcome.
Before(value, log, others) ==
    IF others.status # "ok"
    THEN Failed(others.status, log \o others.log, others.rest)
    ELSE [status |-> "ok", value |-> value \o others.value,
          log |-> log \o others.log, rest |-> others.rest]

\* A loop that has no step left to make.
Done(stream) ==
    [status |-> "ok", value |-> <<>>, log |-> <<>>, rest |-> stream]

RECURSIVE SelectNames(_, _, _)
\* [select_name(names) for _ in range(count)]
SelectNames(count, pool, stream) ==
    IF count = 0
    THEN Done(stream)
    ELSE LET selected == SelectName(pool, stream)
         IN  IF selected.status # "ok"
             THEN selected
             ELSE Before(<<selected.value>>, selected.log,
                         SelectNames(count - 1, pool, selected.rest))

RECURSIVE PickSyllables(_, _, _, _)
\* The loop of build_from_syllables over base_names: the concatenation of
\* the syllables picked.
PickSyllables(base_names, cons, vows, stream) ==
    IF base_names = <<>>
    THEN Done(stream)
    ELSE LET syllables == SplitIntoSyllables(Head(base_names), cons, vows)
             r == Roll(Len(syllables), stream)
             index == r.value - 1
             syllable == syllables[index + 1]
         IN  IF r.status # "ok"
             THEN Failed(r.status, r.log, r.rest)
             ELSE Before(syllable, r.log,
                         PickSyllables(Tail(base_names), cons, vows, r.rest))

RECURSIVE SelectAndPick(_, _, _, _, _)
\* A loop that selects a name and picks its syllable before it selects
\* the next name.
SelectAndPick(count, pool, cons, vows, stream) ==
    IF count = 0
    THEN Done(stream)
    ELSE LET selected == SelectName(pool, stream)
             syllables == SplitIntoSyllables(selected.value, cons, vows)
             r == Roll(Len(syllables), selected.rest)
         IN  IF selected.status # "ok"
             THEN selected
             ELSE IF r.status # "ok"
             THEN Failed(r.status, selected.log \o r.log, r.rest)
             ELSE Before(syllables[r.value], selected.log \o r.log,
                         SelectAndPick(count - 1, pool, cons, vows, r.rest))

\* build_from_syllables that rolls for the syllable of a name right
\* after it selects the name.
BuildFromSyllablesInterleaved(count, pool, cons, vows, stream) ==
    LET picked == SelectAndPick(count, pool, cons, vows, stream)
    IN  IF picked.status # "ok"
        THEN picked
        ELSE [status |-> "ok", value |-> Title(picked.value),
              log |-> picked.log, rest |-> picked.rest]

BuildFromSyllables(count, pool, cons, vows, stream) ==
    LET base_names == SelectNames(count, pool, stream)
        picked == PickSyllables(base_names.value, cons, vows, base_names.rest)
    IN  IF base_names.status # "ok"
        THEN base_names
        ELSE IF picked.status # "ok"
        THEN Failed(picked.status, base_names.log \o picked.log, picked.rest)
        ELSE [status |-> "ok", value |-> Title(picked.value),
              log |-> base_names.log \o picked.log, rest |-> picked.rest]

----------------------------------------------------------------------------
(* The modifiers of mod.py: double_letter, add_letters, garble and         *)
(* translate_characters.  A string argument is a sequence of characters.   *)

\* The characters of a string.
Chars(s) == {s[i] : i \in 1..Len(s)}

\* The bound of a Python slice of a string of length n: a bound below zero
\* counts from the end, and the bound is clamped to 0..n.
SliceBound(i, n) ==
    IF i < 0
    THEN (IF i + n < 0 THEN 0 ELSE i + n)
    ELSE (IF i > n THEN n ELSE i)

\* s[lo:hi] of Python, with 0-based bounds.
Slice(s, lo, hi) ==
    SubSeq(s, SliceBound(lo, Len(s)) + 1, SliceBound(hi, Len(s)))

\* s[index] of Python is defined, with a 0-based index.
InRange(s, index) == index >= 0 - Len(s) /\ index < Len(s)

\* s[index] of Python where it is defined.
CharAt(s, index) ==
    IF index < 0 THEN s[Len(s) + index + 1] ELSE s[index + 1]

\* Only the first character uppercased, the others left as they are.
CapitalizeKeepsRest(s) ==
    [i \in 1..Len(s) |-> IF i = 1 THEN ToUpper(s[i]) ELSE s[i]]

\* str.capitalize: the first character uppercased, the others lowercased.
Capitalize(s) ==
    [i \in 1..Len(s) |-> IF i = 1 THEN ToUpper(s[i]) ELSE ToLower(s[i])]

\* [i for i, c in enumerate(name) if c in letters], as a sequence of
\* 0-based indices in ascending order.
RECURSIVE Possibilities(_, _, _)
Possibilities(s, letters, i) ==
    IF i >= Len(s) THEN <<>>
    ELSE (IF s[i + 1] \in Chars(letters) THEN <<i>> ELSE <<>>)
         \o Possibilities(s, letters, i + 1)

\* name[0:index] + name[index] + name[index:]
Doubled(s, index) ==
    Slice(s, 0, index) \o <<CharAt(s, index)>> \o Slice(s, index, Len(s))

\* double_letter that looks for the letters in the case-folded name.
DoubleLetterFolded(s, letters, stream) ==
    IF letters # <<>> /\ Chars(Casefold(s)) \cap Chars(letters) = {}
    THEN [status |-> "ok", value |-> s, log |-> <<>>, rest |-> stream]
    ELSE IF letters = <<>>
    THEN LET r == Roll(Len(s), stream)
             index == r.value - 1
         IN  IF r.status # "ok" THEN Failed(r.status, r.log, r.rest)
             ELSE IF ~InRange(s, index)
             THEN Failed("IndexError", r.log, r.rest)
             ELSE [status |-> "ok", value |-> Doubled(s, index),
                   log |-> r.log, rest |-> r.rest]
    ELSE LET possibilities == Possibilities(Casefold(s), letters, 0)
             r == Roll(Len(possibilities), stream)
             poss_index == r.value - 1
         IN  IF r.status # "ok" THEN Failed(r.status, r.log, r.rest)
             ELSE IF ~InRange(possibilities, poss_index)
             THEN Failed("IndexError", r.log, r.rest)
             ELSE [status |-> "ok",
                   value |-> Doubled(s, CharAt(possibilities, poss_index)),
                   log |-> r.log, rest |-> r.rest]

\* double_letter that rolls before it looks for the letters in the name.
DoubleLetterRollsFirst(s, letters, stream) ==
    LET r == Roll(Len(s), stream)
    IN  IF r.status # "ok" THEN Failed(r.status, r.log, r.rest)
        ELSE IF letters # <<>> /\ Chars(s) \cap Chars(letters) = {}
        THEN [status |-> "ok", value |-> s, log |-> r.log, rest |-> r.rest]
        ELSE IF ~InRange(s, r.value - 1)
        THEN Failed("IndexError", r.log, r.rest)
        ELSE [status |-> "ok", value |-> Doubled(s, r.value - 1),
              log |-> r.log, rest |-> r.rest]

DoubleLetter(s, letters, stream) ==
    IF letters # <<>> /\ Chars(s) \cap Chars(letters) = {}
    THEN [status |-> "ok", value |-> s, log |-> <<>>, rest |-> stream]
    ELSE IF letters = <<>>
    THEN LET r == Roll(Len(s), stream)
             index == r.value - 1
         IN  IF r.status # "ok" THEN Failed(r.status, r.log, r.rest)
             ELSE IF ~InRange(s, index)
             THEN Failed("IndexError", r.log, r.rest)
             ELSE [status |-> "ok", value |-> Doubled(s, index),
                   log |-> r.log, rest |-> r.rest]
    ELSE LET possibilities == Possibilities(s, letters, 0)
             r == Roll(Len(possibilities), stream)
             poss_index == r.value - 1
         IN  IF r.status # "ok" THEN Failed(r.status, r.log, r.rest)
             ELSE IF ~InRange(possibilities, poss_index)
             THEN Failed("IndexError", r.log, r.rest)
             ELSE [status |-> "ok",
                   value |-> Doubled(s, CharAt(possibilities, poss_index)),
                   log |-> r.log, rest |-> r.rest]

\* The letter put before the name whatever the name starts with.
AtFrontInserted(folded, letter, vows) == <<letter>> \o folded

\* add_letters, choice < 6: the letter goes before a leading vowel and
\* takes the place of any other leading character.
AtFront(folded, letter, vows) ==
    IF folded[1] \in vows
    THEN <<letter>> \o folded
    ELSE <<letter>> \o Slice(folded, 1, Len(folded))

\* add_letters, choice < 11: the letter goes after a trailing vowel and
\* takes the place of any other trailing character.
AtBack(folded, letter, vows) ==
    IF folded[Len(folded)] \in vows
    THEN folded \o <<letter>>
    ELSE Slice(folded, 0, -1) \o <<letter>>

\* f'{name[:index]}{letter}{name[index + 1:]}'
ReplaceAt(s, index, letter) ==
    Slice(s, 0, index) \o <<letter>> \o Slice(s, index + 1, Len(s))

\* A loop that replaces at the first of the indices only.
ReplaceFirstOnly(s, indices, letter) ==
    IF indices = <<>> THEN s ELSE ReplaceAt(s, Head(indices), letter)

RECURSIVE ReplaceEach(_, _, _)
\* for index in indices: name = f'{name[:index]}{letter}{name[index + 1:]}'
ReplaceEach(s, indices, letter) ==
    IF indices = <<>> THEN s
    ELSE ReplaceEach(ReplaceAt(s, Head(indices), letter), Tail(indices),
                     letter)

\* A list of indices one shorter than the count rolled.
RollIndicesOneFewer(count, sides, stream) ==
    IF count <= 1
    THEN [status |-> "ok", value |-> <<>>, log |-> <<>>, rest |-> stream]
    ELSE [status |-> "ok", value |-> <<Head(stream).value - 1>>,
          log |-> <<Rolled(sides, Head(stream).value)>>,
          rest |-> Tail(stream)]

RECURSIVE RollIndices(_, _, _)
\* [roll(len_roll) - 1 for _ in range(count)]
RollIndices(count, sides, stream) ==
    IF count <= 0
    THEN Done(stream)
    ELSE LET r == Roll(sides, stream)
         IN  IF r.status # "ok"
             THEN Failed(r.status, r.log, r.rest)
             ELSE Before(<<r.value - 1>>, r.log,
                         RollIndices(count - 1, sides, r.rest))

\* add_letters, choice >= 11: the letter takes the place of the character
\* at one rolled index, or, on a wild roll of 20, at each of a rolled
\* number of rolled indices.
ReplaceRolled(folded, letter, wild, stream) ==
    IF wild < 20
    THEN LET r == Roll(Len(folded), stream)
             index == r.value - 1
         IN  IF r.status # "ok" THEN Failed(r.status, r.log, r.rest)
             ELSE [status |-> "ok",
                   value |-> ReplaceAt(folded, index, letter),
                   log |-> r.log, rest |-> r.rest]
    ELSE LET c == Roll(Len(folded), stream)
             count == c.value
             indices == RollIndices(count, Len(folded), c.rest)
         IN  IF c.status # "ok" THEN Failed(c.status, c.log, c.rest)
             ELSE IF indices.status # "ok"
             THEN Failed(indices.status, c.log \o indices.log, indices.rest)
             ELSE [status |-> "ok",
                   value |-> ReplaceEach(folded, indices.value, letter),
                   log |-> c.log \o indices.log, rest |-> indices.rest]

\* add_letters(name, letters, vowels).  The dice of choice and of wild
\* have sides, and their rolls give a value.
AddLetters(s, letters, vows, stream) ==
    LET l == Roll(Len(letters), stream)
        letter_index == l.value - 1
        letter == CharAt(letters, letter_index)
        c == Roll(12, l.rest)
        choice == c.value
        w == Roll(20, c.rest)
        wild == w.value
        log == l.log \o c.log \o w.log
        folded == Casefold(s)
        replaced == ReplaceRolled(folded, letter, wild, w.rest)
    IN  IF l.status # "ok" THEN Failed(l.status, l.log, l.rest)
        ELSE IF ~InRange(letters, letter_index)
        THEN Failed("IndexError", l.log, l.rest)
        ELSE IF choice < 11 /\ folded = <<>>
        THEN Failed("IndexError", log, w.rest)
        ELSE IF choice < 6
        THEN [status |-> "ok",
              value |-> Capitalize(AtFront(folded, letter, vows)),
              log |-> log, rest |-> w.rest]
        ELSE IF choice < 11
        THEN [status |-> "ok",
              value |-> Capitalize(AtBack(folded, letter, vows)),
              log |-> log, rest |-> w.rest]
        ELSE IF replaced.status # "ok"
        THEN Failed(replaced.status, log \o replaced.log, replaced.rest)
        ELSE [status |-> "ok", value |-> Capitalize(replaced.value),
              log |-> log \o replaced.log, rest |-> replaced.rest]

\* bytes(c, encoding='utf_8') for an ASCII letter or a hyphen: the one
\* byte of its code.
AsciiOf(c) ==
    IF IsUpper(c)
    THEN 64 + (CHOOSE i \in LetterIndex : UpperLetters[i] = c)
    ELSE IF IsLower(c)
    THEN 96 + (CHOOSE i \in LetterIndex : LowerLetters[i] = c)
    ELSE 45

\* The Base64 alphabet, by value.
Digits == <<"0", "1", "2", "3", "4", "5", "6", "7", "8", "9">>
B64Alphabet == UpperLetters \o LowerLetters \o Digits \o <<"+", "/">>

\* base64.encodebytes of one byte: the high six bits, the low two bits
\* followed by four zero bits, two padding characters and a newline.
Encodebytes(byte) ==
    <<B64Alphabet[(byte \div 4) + 1], B64Alphabet[(byte % 4) * 16 + 1],
      "=", "=", "\n">>

\* str.replace(old, new) for one-character strings.
Replace(s, old, new) ==
    [i \in 1..Len(s) |-> IF s[i] = old THEN new ELSE s[i]]

\* An rstrip that leaves the string as it is.
RstripNothing(s) == s

RECURSIVE Rstrip(_)
\* str.rstrip: trailing whitespace removed.
Rstrip(s) ==
    IF s # <<>> /\ s[Len(s)] \in {" ", "\n"}
    THEN Rstrip(SubSeq(s, 1, Len(s) - 1))
    ELSE s

\* garble(name)
Garble(s, stream) ==
    LET r == Roll(Len(s), stream)
        index == r.value - 1
        char == AsciiOf(CharAt(s, index))
        garbled == Rstrip(Replace(Encodebytes(char), "=", " "))
    IN  IF r.status # "ok" THEN Failed(r.status, r.log, r.rest)
        ELSE IF ~InRange(s, index)
        THEN Failed("IndexError", r.log, r.rest)
        ELSE [status |-> "ok",
              value |-> Capitalize(Slice(s, 0, index) \o garbled
                                   \o Slice(s, index + 1, Len(s))),
              log |-> r.log, rest |-> r.rest]

\* str.maketrans(char_dict): the table from the code of each key to its
\* replacement.
Maketrans(char_dict) ==
    [code \in {AsciiOf(k) : k \in DOMAIN char_dict} |->
        char_dict[CHOOSE k \in DOMAIN char_dict : AsciiOf(k) = code]]

\* str.translate(table): each character whose code is in the table gives
\* way to its replacement, in one pass over the string.
Translate(s, table) ==
    [i \in 1..Len(s) |->
        IF AsciiOf(s[i]) \in DOMAIN table THEN table[AsciiOf(s[i])]
        ELSE s[i]]

\* translate_characters that translates what it has translated.
TranslateCharactersTwice(s, map, fold) ==
    LET folded == IF fold THEN Casefold(s) ELSE s
        trans_map == Maketrans(map)
    IN  Translate(Translate(folded, trans_map), trans_map)

\* translate_characters(name, char_map, casefold)
TranslateCharacters(s, map, fold) ==
    LET folded == IF fold THEN Casefold(s) ELSE s
        char_dict == map
        trans_map == Maketrans(char_dict)
    IN  Translate(folded, trans_map)

\* The last character uppercased, the others left as they are.
UpperLast(s) ==
    [i \in 1..Len(s) |-> IF i = Len(s) THEN ToUpper(s[i]) ELSE s[i]]

\* The first character uppercased, the others left as they are.
UpperFirst(s) ==
    [i \in 1..Len(s) |-> IF i = 1 THEN ToUpper(s[i]) ELSE s[i]]

\* add_punctuation(name, punctuation, cap_before, cap_after, index): the
\* mark is rolled first; the index is rolled when none is given, and an
\* index given is a sequence of one integer.  The name is cut at the
\* index, the part before the cut and the part after it are capitalized
\* as asked, and the mark is put between them.
AddPunctuation(s, marks, before, after, at, stream) ==
    LET m == Roll(Len(marks), stream)
        mark == CharAt(marks, m.value - 1)
        p == IF at = <<>>
             THEN Roll(Len(s), m.rest)
             ELSE [status |-> "ok", value |-> at[1] + 1, log |-> <<>>,
                   rest |-> m.rest]
        cut == p.value - 1
        head == Slice(s, 0, cut)
        tail == Slice(s, cut, Len(s))
    IN  IF m.status # "ok" THEN Failed(m.status, m.log, m.rest)
        ELSE IF ~InRange(marks, m.value - 1)
        THEN Failed("IndexError", m.log, m.rest)
        ELSE IF p.status # "ok"
        THEN Failed(p.status, m.log \o p.log, p.rest)
        ELSE [status |-> "ok",
              value |-> (IF before THEN UpperFirst(head) ELSE head)
                        \o <<mark>>
                        \o (IF after THEN UpperFirst(tail) ELSE tail),
              log |-> m.log \o p.log, rest |-> p.rest]

----------------------------------------------------------------------------
(* Inputs. *)

\* The characters names are enumerated over: two vowels and a consonant
\* of the default configuration and one uppercase letter.
EnumChars == {"a", "e", "b", "A"}

RECURSIVE SeqsUpTo(_, _)
\* All sequences over S of length 0..n.
SeqsUpTo(S, n) ==
    IF n = 0 THEN {<<>>}
    ELSE LET shorter == SeqsUpTo(S, n - 1)
         IN  shorter \cup {Append(s, c) : s \in shorter, c \in S}

\* Names of the fixtures and doctests.
Spam == <<"s", "p", "a", "m">>
Eggs == <<"e", "g", "g", "s">>
Tomato == <<"t", "o", "m", "a", "t", "o">>
Alice == <<"a", "l", "i", "c", "e">>
William == <<"w", "i", "l", "l", "i", "a", "m">>
Waffles == <<"w", "a", "f", "f", "l", "e", "s">>

\* A name with uppercase letters after the first.
MixedCase == <<"e", "B", "A", "c">>

\* A name with a character that is not a letter.
Hyphened == <<"a", "-", "b", "e">>

\* The default configuration.
DefaultConsonants ==
    {"b", "c", "d", "f", "g", "h", "j", "k", "l", "m", "n", "p", "q", "r",
     "s", "t", "v", "w", "x", "z"}
DefaultVowels == {"a", "e", "i", "o", "u", "y"}

\* The configurations tried: the default one, one that treats 'e' as a
\* consonant and 'b' as a vowel, one that leaves 'e' in neither set, and
\* one whose sets overlap on 'b'.
Configs ==
    { [consonants |-> DefaultConsonants, vowels |-> DefaultVowels],
      [consonants |-> (DefaultConsonants \ {"b"}) \cup {"e"},
       vowels |-> (DefaultVowels \ {"e"}) \cup {"b"}],
      [consonants |-> {"b", "l", "s"}, vowels |-> {"a", "i"}],
      [consonants |-> DefaultConsonants, vowels |-> DefaultVowels \cup {"b"}] }

\* The configurations tried with pools of names: the default one and one
\* that treats 'e' as a consonant and 'g' as a vowel.
PoolConfigs ==
    { [consonants |-> DefaultConsonants, vowels |-> DefaultVowels],
      [consonants |-> (DefaultConsonants \ {"g"}) \cup {"e"},
       vowels |-> (DefaultVowels \ {"e"}) \cup {"g"}] }

\* The names pools are made of.
PoolNames == {Spam, Eggs, Tomato, MixedCase}

\* The records of a pool: the id is the position, the other columns of a
\* Name are opaque to the operations and left out.
PoolOf(texts) == [i \in 1..Len(texts) |-> [id |-> i, name |-> texts[i]]]

\* The pools tried, the zero-length pool among them.
Pools == {PoolOf(t) : t \in SeqsUpTo(PoolNames, MaxPool)}

\* What a roll of a die can do.  A die with sides gives one of them; what
\* the dice library does with a die that has none is not in the
\* repository: it raises, or it gives some integer.
Outcomes(sides) ==
    IF sides >= 1
    THEN {Gives(v) : v \in 1..sides}
    ELSE {DiceRaises} \cup {Gives(v) : v \in -1..1}

\* The characters the names given to the modifiers are enumerated over.
ModChars == {"a", "b", "E"}

\* The names given to double_letter, garble and translate_characters.
Bacon == <<"B", "a", "c", "o", "n">>
CapSpam == <<"S", "p", "a", "m">>
CapEggs == <<"E", "g", "g", "s">>
ModNames == SeqsUpTo(ModChars, MaxNameLen) \cup {Bacon, CapSpam, CapEggs}

\* The default scifi_letters.
ScifiLetters == <<"k", "q", "x", "z">>

\* The letters given to double_letter: none, the vowels of double_vowel's
\* test, letters of which only some are in 'Bacon', an uppercase letter,
\* and the scifi letters.
LetterArgs ==
    { <<>>, <<"a", "e", "i", "o", "u">>, <<"b", "c", "n">>, <<"b", "E">>,
      ScifiLetters }

\* The names given to add_letters.
Adam == <<"A", "d", "a", "m">>
AddNames == SeqsUpTo(ModChars, MaxAddLen) \cup {Adam}

\* The letters given to add_letters: the scifi letters, and an uppercase
\* letter that is a vowel once folded.
FlavorArgs == {ScifiLetters, <<"E">>}

\* The values tried for the roll of choice, on a die of 12, and for the
\* roll of wild, on a die of 20: the ends of the ranges add_letters
\* tells apart.
ChoiceRolls == {1, 5, 6, 10, 11, 12}
WildRolls == {1, 19, 20}

\* The outcomes of the rolls add_letters makes after those of the letter,
\* of choice and of wild, on a name of length n.
IndexRolls(n, choice, wild) ==
    IF choice < 11 THEN {<<>>}
    ELSE IF wild < 20 THEN {<<r>> : r \in Outcomes(n)}
    ELSE UNION {{<<count>> \o indices :
                    indices \in [1..count.value -> Outcomes(n)]} :
                count \in Outcomes(n)}

\* The names given to translate_characters.
Donatello == <<"d", "o", "n", "a", "t", "e", "l", "l", "o">>

\* The maps given to translate_characters: that of the test, one that
\* swaps two letters, one with an uppercase key, one with an uppercase
\* replacement, and the empty one.
CharMaps ==
    { ("d" :> "s") @@ ("o" :> "a"),
      ("a" :> "b") @@ ("b" :> "a"),
      ("E" :> "a") @@ ("a" :> "E"),
      ("b" :> "E"),
      [c \in {} |-> c] }

\* The names given to add_punctuation: lowercase names, as in its tests.
PunctNames == (SeqsUpTo({"a", "b"}, MaxNameLen) \ {<<>>}) \cup {Spam}

\* The first marks of the default punctuation.
Punctuation == <<"'", "-", ".">>

\* The index given to add_punctuation for a name of length n: none, or a
\* position of the name.
IndexArgs(n) == {<<>>} \cup {<<i>> : i \in 0..(n - 1)}

\* The letters given to get_change_index: vowels, a consonant, both with
\* an uppercase letter, and none.
RunLetters == {<<"a", "e">>, <<"b">>, <<"a", "b", "A">>, <<>>}

RECURSIVE RollsOn(_)
\* The sequences of outcomes that rolls of the dice sides[1], sides[2],
\* ... can have.
RollsOn(sides) ==
    IF Len(sides) = 0 THEN {<<>>}
    ELSE {<<v>> \o rest : v \in Outcomes(sides[1]),
                          rest \in RollsOn(Tail(sides))}

----------------------------------------------------------------------------
(* The state machine.  The operations are functions of their arguments  *)
(* and of the rolls they make, and keep nothing from one call to the next: *)
(* a behaviour is one call, made from the initial state.                   *)

\* The configuration is read before any call is made.
Init ==
    /\ op = "init"
    /\ mod_name = <<>>
    /\ root_name = <<>>
    /\ name = <<>>
    /\ names = <<>>
    /\ num_syllables = 0
    /\ \E cfg \in Configs \cup PoolConfigs :
        consonants = cfg.consonants /\ vowels = cfg.vowels
    /\ mod_letters = <<>>
    /\ char_map = [c \in {} |-> c]
    /\ casefold = TRUE
    /\ punctuation = <<>>
    /\ cap_before = TRUE
    /\ cap_after = TRUE
    /\ punct_index = <<>>
    /\ rolls = <<>>
    /\ result = NoResult
    /\ files = <<>>
    /\ dirs = {}
    /\ tables = <<>>
    /\ toml_ok = TRUE
    /\ path_arg = <<>>
    /\ conf_arg = <<>>
    /\ loaded = <<>>
    /\ connections = <<>>
    /\ prior = <<>>
    /\ args = <<>>
    /\ calls = 0

\* The configuration is one of those tried with pools of names.
PoolConfigured ==
    [consonants |-> consonants, vowels |-> vowels] \in PoolConfigs

\* mod.compound_names(mod_name, root_name, consonants, vowels)
DoCompoundNames ==
    /\ op = "init"
    /\ [consonants |-> consonants, vowels |-> vowels] \in Configs
    /\ \E m \in SeqsUpTo(EnumChars, MaxModLen) \cup {Spam},
          r \in SeqsUpTo(EnumChars, MaxRootLen) \cup {Eggs, Hyphened} :
        /\ op' = "compound_names"
        /\ mod_name' = m
        /\ root_name' = r
        /\ rolls' = <<>>
        /\ result' = CompoundNames(m, r, consonants, vowels)
        /\ UNCHANGED other_vars
        /\ UNCHANGED <<name, names, num_syllables, consonants,
                       vowels, mod_letters, char_map, casefold>>

\* utility.split_into_syllables(name, consonants, vowels)
DoSplitIntoSyllables ==
    /\ op = "init"
    /\ [consonants |-> consonants, vowels |-> vowels] \in Configs
    /\ \E n \in (SeqsUpTo(EnumChars, MaxSylLen) \ {<<>>})
                  \cup {William, Alice, Waffles, Hyphened} :
        /\ op' = "split_into_syllables"
        /\ name' = n
        /\ rolls' = <<>>
        /\ result' = Ok(SplitIntoSyllables(n, consonants, vowels))
        /\ UNCHANGED other_vars
        /\ UNCHANGED <<mod_name, root_name, names, num_syllables,
                       consonants, vowels, mod_letters, char_map, casefold>>

\* mkname.select_name(names)
DoSelectName ==
    /\ op = "init"
    /\ PoolConfigured
    /\ \E pool \in Pools :
       \E r \in Outcomes(Len(pool)) :
       \E call \in {SelectName(pool, <<r, Gives(1)>>)} :
        /\ op' = "select_name"
        /\ names' = pool
        /\ rolls' = call.log
        /\ result' = [status |-> call.status, value |-> call.value]
        /\ UNCHANGED other_vars
        /\ UNCHANGED <<mod_name, root_name, name, num_syllables,
                       consonants, vowels, mod_letters, char_map, casefold>>

\* mkname.build_compound_name(names, consonants, vowels)
DoBuildCompoundName ==
    /\ op = "init"
    /\ PoolConfigured
    /\ \E pool \in Pools :
       \E r1 \in Outcomes(Len(pool)), r2 \in Outcomes(Len(pool)) :
       \E call \in {BuildCompoundName(pool, consonants, vowels,
                                      <<r1, r2, Gives(1)>>)} :
        /\ op' = "build_compound_name"
        /\ names' = pool
        /\ rolls' = call.log
        /\ result' = [status |-> call.status, value |-> call.value]
        /\ UNCHANGED other_vars
        /\ UNCHANGED <<mod_name, root_name, name, num_syllables,
                       consonants, vowels, mod_letters, char_map, casefold>>

\* The number of syllables of each name that picks selects from the
\* pool; a zero-length pool has no name to split.
SyllableCounts(pool, picks) ==
    IF pool = <<>>
    THEN <<>>
    ELSE [i \in DOMAIN picks |->
            Len(SplitIntoSyllables(pool[picks[i].value].name,
                                   consonants, vowels))]

\* mkname.build_from_syllables(num_syllables, names, consonants, vowels)
DoBuildFromSyllables ==
    /\ op = "init"
    /\ PoolConfigured
    /\ \E n \in 0..MaxSyllables, pool \in Pools :
       \E picks \in [1..n -> Outcomes(Len(pool))] :
       \E chosen \in RollsOn(SyllableCounts(pool, picks)) :
       \E call \in {BuildFromSyllables(n, pool, consonants, vowels,
                                       picks \o chosen \o <<Gives(1)>>)} :
        /\ op' = "build_from_syllables"
        /\ num_syllables' = n
        /\ names' = pool
        /\ rolls' = call.log
        /\ result' = [status |-> call.status, value |-> call.value]
        /\ UNCHANGED other_vars
        /\ UNCHANGED <<mod_name, root_name, name, consonants,
                       vowels, mod_letters, char_map, casefold>>

\* The configuration is the default one.
DefaultConfigured ==
    consonants = DefaultConsonants /\ vowels = DefaultVowels

\* The die double_letter rolls, if it rolls.
DoubleLetterSides(n, l) ==
    IF l = <<>> THEN Len(n) ELSE Len(Possibilities(n, l, 0))

\* mod.double_letter(name, letters)
DoDoubleLetter ==
    /\ op = "init"
    /\ DefaultConfigured
    /\ \E n \in ModNames, l \in LetterArgs :
       \E r \in Outcomes(DoubleLetterSides(n, l)) :
       \E call \in {DoubleLetter(n, l, <<r, Gives(1)>>)} :
        /\ op' = "double_letter"
        /\ name' = n
        /\ mod_letters' = l
        /\ rolls' = call.log
        /\ result' = [status |-> call.status, value |-> call.value]
        /\ UNCHANGED other_vars
        /\ UNCHANGED <<mod_name, root_name, names, num_syllables,
                       consonants, vowels, char_map, casefold>>

\* mod.add_punctuation(name, punctuation, cap_before, cap_after, index)
DoAddPunctuation ==
    /\ op = "init"
    /\ DefaultConfigured
    /\ \E n \in PunctNames, before \in BOOLEAN, after \in BOOLEAN :
       \E at \in IndexArgs(Len(n)) :
       \E m \in Outcomes(Len(Punctuation)), p \in Outcomes(Len(n)) :
       \E call \in {AddPunctuation(n, Punctuation, before, after, at,
                                   <<m, p, Gives(1)>>)} :
        /\ op' = "add_punctuation"
        /\ name' = n
        /\ punctuation' = Punctuation
        /\ cap_before' = before
        /\ cap_after' = after
        /\ punct_index' = at
        /\ rolls' = call.log
        /\ result' = [status |-> call.status, value |-> call.value]
        /\ UNCHANGED late_vars
        /\ UNCHANGED <<mod_name, root_name, names, num_syllables,
                       consonants, vowels, mod_letters, char_map, casefold>>

\* get_change_index(s, letters), the helper of compound_names.
DoGetChangeIndex ==
    /\ op = "init"
    /\ DefaultConfigured
    /\ \E s \in SeqsUpTo(EnumChars, MaxRootLen), l \in RunLetters :
        /\ op' = "get_change_index"
        /\ name' = s
        /\ mod_letters' = l
        /\ rolls' = <<>>
        /\ result' = Ok(<<GetChangeIndex(s, Chars(l))>>)
        /\ UNCHANGED other_vars
        /\ UNCHANGED <<mod_name, root_name, names, num_syllables,
                       consonants, vowels, char_map, casefold>>

\* mod.translate_characters(name, char_map, casefold)
DoTranslateCharacters ==
    /\ op = "init"
    /\ DefaultConfigured
    /\ \E n \in ModNames \cup {Donatello}, map \in CharMaps,
          fold \in BOOLEAN :
        /\ op' = "translate_characters"
        /\ name' = n
        /\ char_map' = map
        /\ casefold' = fold
        /\ rolls' = <<>>
        /\ result' = Ok(TranslateCharacters(n, map, fold))
        /\ UNCHANGED other_vars
        /\ UNCHANGED <<mod_name, root_name, names, num_syllables,
                       consonants, vowels, mod_letters>>

\* mod.garble(name)
DoGarble ==
    /\ op = "init"
    /\ DefaultConfigured
    /\ \E n \in ModNames \cup {Hyphened} :
       \E r \in Outcomes(Len(n)) :
       \E call \in {Garble(n, <<r, Gives(1)>>)} :
        /\ op' = "garble"
        /\ name' = n
        /\ rolls' = call.log
        /\ result' = [status |-> call.status, value |-> call.value]
        /\ UNCHANGED other_vars
        /\ UNCHANGED <<mod_name, root_name, names, num_syllables,
                       consonants, vowels, mod_letters, char_map, casefold>>

\* mod.add_letters(name, letters, vowels)
DoAddLetters ==
    /\ op = "init"
    /\ DefaultConfigured
    /\ \E n \in AddNames, l \in FlavorArgs :
       \E lr \in Outcomes(Len(l)), c \in ChoiceRolls, w \in WildRolls :
       \E ir \in IndexRolls(Len(n), c, w) :
       \E call \in {AddLetters(n, l, vowels,
                               <<lr, Gives(c), Gives(w)>> \o ir
                                   \o <<Gives(1)>>)} :
        /\ op' = "add_letters"
        /\ name' = n
        /\ mod_letters' = l
        /\ rolls' = call.log
        /\ result' = [status |-> call.status, value |-> call.value]
        /\ UNCHANGED other_vars
        /\ UNCHANGED <<mod_name, root_name, names, num_syllables,
                       consonants, vowels, char_map, casefold>>

Next ==
    \/ DoDoubleLetter
    \/ DoAddLetters
    \/ DoGarble
    \/ DoTranslateCharacters
    \/ DoGetChangeIndex
    \/ DoAddPunctuation
    \/ DoCompoundNames
    \/ DoSplitIntoSyllables
    \/ DoSelectName
    \/ DoBuildCompoundName
    \/ DoBuildFromSyllables

Spec == Init /\ [][Next]_vars

----------------------------------------------------------------------------
(* Properties of compound_names. *)

\* The first i characters of s are its leading run over letters: the
\* first character, then characters of letters, and the run cannot be
\* extended.
IsLeadingRun(s, i, letters) ==
    /\ i \in 1..Len(s)
    /\ \A t \in 2..i : s[t] \in letters
    /\ i = Len(s) \/ s[i + 1] \notin letters

\* The set that decides the leading run of a folded name: the vowels when
\* the name starts with one, the consonants otherwise.
ClassOf(s) == IF s[1] \in vowels THEN vowels ELSE consonants

CompoundCall ==
    op = "compound_names" /\ mod_name # <<>> /\ root_name # <<>>

\* C1: when the folded mod and root names both start with a vowel, or both
\* with a non-vowel, compound_names returns the title-cased leading run
\* of the mod name followed by the root name without its own leading run
\* of the same class.
C1_SameClassSplices ==
    LET m == Casefold(mod_name)
        r == Casefold(root_name)
    IN  (CompoundCall /\ (m[1] \in vowels <=> r[1] \in vowels)) =>
            /\ result.status = "ok"
            /\ \E i \in 1..Len(m), j \in 1..Len(r) :
                /\ IsLeadingRun(m, i, ClassOf(m))
                /\ IsLeadingRun(r, j, ClassOf(m))
                /\ result.value =
                       Title(SubSeq(m, 1, i) \o SubSeq(r, j + 1, Len(r)))

\* C1 witness: 'Ae' and 'eba' under the default letters give 'Aeba': the
\* two leading vowels of the mod name replace the one of the root name.
C1_Witness ==
    /\ op = "compound_names"
    /\ mod_name = <<"A", "e">>
    /\ root_name = <<"e", "b", "a">>
    /\ vowels = DefaultVowels
    /\ consonants = DefaultConsonants
    /\ result = Ok(<<"A", "e", "b", "a">>)

\* C2: when exactly one of the folded names starts with a vowel,
\* compound_names returns the title-cased leading run of the mod name
\* followed by the whole folded root name.
C2_MixedClassKeepsRoot ==
    LET m == Casefold(mod_name)
        r == Casefold(root_name)
    IN  (CompoundCall /\ ~(m[1] \in vowels <=> r[1] \in vowels)) =>
            /\ result.status = "ok"
            /\ \E i \in 1..Len(m) :
                /\ IsLeadingRun(m, i, ClassOf(m))
                /\ result.value = Title(SubSeq(m, 1, i) \o r)

\* C2 witness: 'spam' and 'eggs' under the default letters give 'Speggs'.
C2_Witness ==
    /\ op = "compound_names"
    /\ mod_name = Spam
    /\ root_name = Eggs
    /\ vowels = DefaultVowels
    /\ consonants = DefaultConsonants
    /\ result = Ok(<<"S", "p", "e", "g", "g", "s">>)

\* The first character of the folded name is a consonant or a vowel.
Classifiable(s) == ToLower(s[1]) \in consonants \cup vowels

ClassifiableCall ==
    CompoundCall /\ Classifiable(mod_name) /\ Classifiable(root_name)

\* C3 as stated: the compound of two non-empty names with classifiable
\* leading characters has at least 2 and at most len(root) + len(mod)
\* characters.
C3_LengthAtLeastTwo ==
    ClassifiableCall =>
        /\ Len(result.value) >= 2
        /\ Len(result.value) <= Len(root_name) + Len(mod_name)

\* C3, amended: the compound of two non-empty names with classifiable
\* leading characters has at least 1 and at most len(root) + len(mod)
\* characters.
C3_LengthBounds ==
    ClassifiableCall =>
        /\ result.status = "ok"
        /\ Len(result.value) >= 1
        /\ Len(result.value) <= Len(root_name) + Len(mod_name)

\* C3 witness: a one-character compound, from a root name of two
\* characters that is all leading run.
C3_Witness ==
    /\ ClassifiableCall
    /\ Len(root_name) >= 2
    /\ Len(result.value) = 1

----------------------------------------------------------------------------
(* Properties of select_name, build_compound_name, build_from_syllables. *)

\* The text of the record of the pool that the k-th roll selected.
Selected(k) == names[rolls[k].value].name

\* C4: on a pool that has a record, build_compound_name makes exactly two
\* rolls over 1..len(pool); the
\* name the first roll selects gives the leading run of the result and
\* the name the second roll selects gives the rest, whole or after its
\* own leading run; 'spam' then 'eggs' gives 'Speggs'.
C4_FirstRollIsPrefix ==
    (op = "build_compound_name" /\ names # <<>>) =>
        /\ Len(rolls) = 2
        /\ \A k \in 1..2 :
              rolls[k].sides = Len(names) /\ rolls[k].value \in 1..Len(names)
        /\ result.status = "ok"
        /\ LET first == Casefold(Selected(1))
               second == Casefold(Selected(2))
           IN  \E i \in 1..Len(first), j \in 0..Len(second) :
                /\ IsLeadingRun(first, i, ClassOf(first))
                /\ j = 0 \/ IsLeadingRun(second, j, ClassOf(first))
                /\ j = 0 <=> ~(first[1] \in vowels <=> second[1] \in vowels)
                /\ result.value =
                       Title(SubSeq(first, 1, i)
                             \o SubSeq(second, j + 1, Len(second)))
        /\ (/\ Selected(1) = Spam
            /\ Selected(2) = Eggs
            /\ vowels = DefaultVowels
            /\ consonants = DefaultConsonants)
               => result.value = <<"S", "p", "e", "g", "g", "s">>

\* C4 witness: 'eggs' and 'spam', rolls 2 then 1, 'Speggs'.
C4_Witness ==
    /\ op = "build_compound_name"
    /\ names = PoolOf(<<Eggs, Spam>>)
    /\ vowels = DefaultVowels
    /\ rolls = <<Rolled(2, 2), Rolled(2, 1)>>
    /\ result = Ok(<<"S", "p", "e", "g", "g", "s">>)

\* C5: on a pool that has a record, select_name makes exactly one roll
\* over 1..len(pool) and returns,
\* unchanged, the text of the record at the position rolled, which is the
\* text of a record of the pool.
C5_SelectsRolledRecord ==
    (op = "select_name" /\ names # <<>>) =>
        /\ Len(rolls) = 1
        /\ rolls[1].sides = Len(names)
        /\ rolls[1].value \in 1..Len(names)
        /\ result.status = "ok"
        /\ result.value = names[rolls[1].value].name
        /\ \E k \in 1..Len(names) : names[k].name = result.value

\* C5 witness: the second record of a pool of two, with its uppercase
\* letters kept.
C5_Witness ==
    /\ op = "select_name"
    /\ names = PoolOf(<<Eggs, MixedCase>>)
    /\ rolls = <<Rolled(2, 2)>>
    /\ result = Ok(MixedCase)

RECURSIVE Flatten(_)
\* The concatenation of a sequence of strings.
Flatten(parts) ==
    IF parts = <<>> THEN <<>> ELSE Head(parts) \o Flatten(Tail(parts))

\* C6: on a pool that has a record, build_from_syllables(n, ...) makes
\* exactly 2n rolls: n over
\* 1..len(pool), then, for the names selected, in the same order, one
\* over 1..(number of syllables of the name); its result is the
\* title-cased concatenation of the syllables rolled, in that order.
C6_RollOrder ==
    (op = "build_from_syllables" /\ names # <<>>) =>
        LET n == num_syllables
            syllables(i) == SplitIntoSyllables(Selected(i), consonants, vowels)
        IN  /\ Len(rolls) = 2 * n
            /\ \A i \in 1..n :
                /\ rolls[i].sides = Len(names)
                /\ rolls[i].value \in 1..Len(names)
                /\ rolls[n + i].sides = Len(syllables(i))
                /\ rolls[n + i].value \in 1..Len(syllables(i))
            /\ result.status = "ok"
            /\ result.value =
                   Title(Flatten([i \in 1..n |->
                                    syllables(i)[rolls[n + i].value]]))

\* C6 witness: two names with different numbers of syllables:
\* the second syllable of 'tomato' and the only syllable of 'spam'.
C6_Witness ==
    /\ op = "build_from_syllables"
    /\ num_syllables = 2
    /\ vowels = DefaultVowels
    /\ names = PoolOf(<<Spam, Tomato>>)
    /\ rolls = <<Rolled(2, 2), Rolled(2, 1), Rolled(3, 2), Rolled(1, 1)>>
    /\ result = Ok(<<"A", "t", "s", "p", "a", "m">>)

----------------------------------------------------------------------------
(* Properties of split_into_syllables. *)

SplitCall == op = "split_into_syllables"

\* The character of the name at index i is a vowel of the pattern.
VowelAt(i) == CalcCvPattern(name, consonants, vowels)[i] = "v"

HasVowel == \E i \in 1..Len(name) : VowelAt(i)

\* The index of the name at which the k-th syllable of the result ends.
EndOf(k) == Len(Flatten(SubSeq(result.value, 1, k)))

\* The index of the name at which the k-th syllable of the result starts.
StartOf(k) == EndOf(k - 1) + 1

\* C7: split_into_syllables returns one or more non-empty substrings whose
\* concatenation, in order, is the name.
C7_LosslessPartition ==
    SplitCall =>
        /\ result.status = "ok"
        /\ Len(result.value) >= 1
        /\ \A k \in 1..Len(result.value) : result.value[k] # <<>>
        /\ Flatten(result.value) = name

\* C7 witness: a name with an uppercase letter cut in three.
C7_Witness ==
    /\ SplitCall
    /\ name = <<"a", "b", "A", "b", "e">>
    /\ vowels = DefaultVowels
    /\ consonants = DefaultConsonants
    /\ result = Ok(<< <<"a", "b">>, <<"A", "b">>, <<"e">> >>)

\* C8: a run of k consonants between two runs of vowels gives its first
\* ceil(k/2) consonants to the syllable before it and the others to the
\* syllable after it, and syllables end nowhere else; 'william' gives
\* ('wil', 'liam') and 'alice' gives ('al', 'ic', 'e').
C8_ConsonantRunHalved ==
    SplitCall =>
        /\ {EndOf(k) : k \in 1..(Len(result.value) - 1)} =
               { i + ((j - i - 1) + 1) \div 2 :
                   <<i, j>> \in
                     { p \in (1..Len(name)) \X (1..Len(name)) :
                         /\ p[1] + 1 < p[2]
                         /\ VowelAt(p[1])
                         /\ VowelAt(p[2])
                         /\ \A t \in (p[1] + 1)..(p[2] - 1) : ~VowelAt(t) } }
        /\ (name = William /\ vowels = DefaultVowels
                /\ consonants = DefaultConsonants)
               => result.value = << <<"w", "i", "l">>, <<"l", "i", "a", "m">> >>
        /\ (name = Alice /\ vowels = DefaultVowels
                /\ consonants = DefaultConsonants)
               => result.value = << <<"a", "l">>, <<"i", "c">>, <<"e">> >>

\* C8 witness: 'waffles': of the three consonants between the vowels, two
\* end the first syllable.
C8_Witness ==
    /\ SplitCall
    /\ name = Waffles
    /\ vowels = DefaultVowels
    /\ consonants = DefaultConsonants
    /\ result = Ok(<< <<"w", "a", "f", "f">>, <<"l", "e", "s">> >>)

\* The k-th syllable of the result is non-vowels, then vowels, then
\* non-vowels: it has exactly one run of vowels.
OneVowelRun(k) ==
    \E a \in StartOf(k)..EndOf(k), b \in StartOf(k)..EndOf(k) :
        /\ a <= b
        /\ \A t \in StartOf(k)..EndOf(k) : VowelAt(t) <=> (a <= t /\ t <= b)

\* How many non-vowels the k-th syllable starts with, and ends with.
LeadingOf(k) ==
    Cardinality({t \in StartOf(k)..EndOf(k) :
                    \A u \in StartOf(k)..t : ~VowelAt(u)})

TrailingOf(k) ==
    Cardinality({t \in StartOf(k)..EndOf(k) :
                    \A u \in t..EndOf(k) : ~VowelAt(u)})

\* C9 as stated: in the syllables of a name with a vowel, every syllable
\* has exactly one run of vowels and keeps the consonants after it up to
\* the next vowel, so every syllable but the first begins with a vowel.
C9_LaterSyllablesStartWithVowel ==
    (SplitCall /\ HasVowel) =>
        /\ \A k \in 1..Len(result.value) : OneVowelRun(k)
        /\ \A k \in 2..Len(result.value) : VowelAt(StartOf(k))

\* C9, amended: in the syllables of a name with a vowel, every syllable
\* has exactly one run of vowels, between optional consonants; of the
\* consonants between two runs of vowels the syllable before takes as
\* many as the syllable after, or one more, so a syllable other than the
\* first begins with a vowel only when a single consonant precedes it.
C9_OneVowelRunPerSyllable ==
    (SplitCall /\ HasVowel) =>
        /\ \A k \in 1..Len(result.value) : OneVowelRun(k)
        /\ \A k \in 2..Len(result.value) :
              /\ TrailingOf(k - 1) >= 1
              /\ TrailingOf(k - 1) - LeadingOf(k) \in {0, 1}

\* C9 witness: 'william': the second syllable, 'liam', begins with a
\* consonant.
C9_Witness ==
    /\ SplitCall
    /\ name = William
    /\ HasVowel
    /\ Len(result.value) = 2
    /\ ~VowelAt(StartOf(2))

----------------------------------------------------------------------------
(* Case of the names built. *)

\* Every name of the pool is made of letters.
AlphabeticPool ==
    \A k \in 1..Len(names) :
        \A i \in 1..Len(names[k].name) : IsCased(names[k].name[i])

\* C10: from a pool of one or more alphabetic names, in any case,
\* build_compound_name
\* and build_from_syllables (n >= 1) return a name whose first character
\* is uppercase and none of whose other characters is.
C10_CaseNormalized ==
    (/\ \/ op = "build_compound_name"
        \/ op = "build_from_syllables" /\ num_syllables >= 1
     /\ names # <<>>
     /\ AlphabeticPool) =>
        /\ result.status = "ok"
        /\ Len(result.value) >= 1
        /\ IsUpper(result.value[1])
        /\ \A i \in 2..Len(result.value) : ~IsUpper(result.value[i])

\* C10 witness: 'eB' and 'Ac', the syllables of 'eBAc', give 'Ebac'.
C10_Witness ==
    /\ op = "build_from_syllables"
    /\ num_syllables = 2
    /\ names = PoolOf(<<MixedCase>>)
    /\ vowels = DefaultVowels
    /\ rolls = <<Rolled(1, 1), Rolled(1, 1), Rolled(2, 1), Rolled(2, 2)>>
    /\ result = Ok(<<"E", "b", "a", "c">>)

----------------------------------------------------------------------------
(* Errors. *)

\* C11: compound_names fails with ValueError, and returns no name, when
\* the first character of the mod name or of the root name is neither a
\* consonant nor a vowel.
C11_UnclassifiedRaises ==
    (CompoundCall /\ ~(Classifiable(mod_name) /\ Classifiable(root_name)))
        => result.status = "ValueError"

\* A call of a synthesizer operation on the zero-length pool.
EmptyPoolCall ==
    /\ op \in {"select_name", "build_compound_name", "build_from_syllables"}
    /\ names = <<>>

\* C12 as stated: every synthesizer operation given a zero-length pool
\* surfaces an error and returns no value.
C12_EmptyPoolRaises ==
    EmptyPoolCall => result.status # "ok"

\* C12: select_name and build_compound_name given a zero-length pool, and
\* build_from_syllables given one and asked for one or more syllables,
\* end with an error and no value, whatever the die with no side does;
\* build_from_syllables asked for no syllable makes no roll and returns
\* the empty string.
C12_EmptyPoolSurfaces ==
    EmptyPoolCall =>
        IF op = "build_from_syllables" /\ num_syllables = 0
        THEN result = Ok(<<>>) /\ rolls = <<>>
        ELSE /\ result.status \in {"DiceError", "IndexError"}
             /\ result.value = <<>>
             /\ Len(rolls) <= 1

\* C12 witness: the die with no side gave a value and the subscript of
\* the zero-length pool raised.
C12_Witness ==
    /\ op = "build_from_syllables"
    /\ num_syllables = 2
    /\ names = <<>>
    /\ rolls = <<Rolled(0, 1)>>
    /\ result = Raise("IndexError")

----------------------------------------------------------------------------
(* Properties of the modifiers. *)

\* The 1-based positions of the name whose character is one of the
\* letters given, compared as they are.
Candidates == {i \in 1..Len(name) : name[i] \in Chars(mod_letters)}

\* The string v is the string s with its character at the 1-based
\* position p written twice.
DuplicatedAt(v, s, p) ==
    /\ Len(v) = Len(s) + 1
    /\ \A i \in 1..p : v[i] = s[i]
    /\ \A i \in (p + 1)..Len(v) : v[i] = s[i - 1]

\* C13: double_letter given letters, none of which is in the name,
\* returns the name as it is and makes no roll.
C13_DisjointLettersNoOp ==
    (/\ op = "double_letter"
     /\ mod_letters # <<>>
     /\ Candidates = {}) =>
        /\ result = Ok(name)
        /\ rolls = <<>>

\* C13 witness: 'Bacon' with the letters 'kqxz'.
C13_Witness ==
    /\ op = "double_letter"
    /\ name = Bacon
    /\ mod_letters = ScifiLetters
    /\ rolls = <<>>
    /\ result = Ok(Bacon)

\* C14: when there is a position to choose, double_letter makes exactly
\* one roll and returns the name with one character written twice: with
\* no letters given, the character at the position rolled over
\* 1..len(name); with letters given, the character at the roll-th, in
\* ascending order, of the positions whose character is one of the
\* letters, compared case-sensitively, rolled over the number of such
\* positions.
C14_DuplicatesRolledPosition ==
    (/\ op = "double_letter"
     /\ \/ mod_letters = <<>> /\ name # <<>>
        \/ Candidates # {}) =>
        /\ Len(rolls) = 1
        /\ result.status = "ok"
        /\ IF mod_letters = <<>>
           THEN /\ rolls[1].sides = Len(name)
                /\ rolls[1].value \in 1..Len(name)
                /\ DuplicatedAt(result.value, name, rolls[1].value)
           ELSE /\ rolls[1].sides = Cardinality(Candidates)
                /\ rolls[1].value \in 1..Cardinality(Candidates)
                /\ \E p \in Candidates :
                     /\ Cardinality({q \in Candidates : q <= p})
                            = rolls[1].value
                     /\ DuplicatedAt(result.value, name, p)

\* C14 witness: 'Bacon' with the letters 'bcn': 'B' is no candidate, and
\* the second of the two candidates is the 'n'.
C14_Witness ==
    /\ op = "double_letter"
    /\ name = Bacon
    /\ mod_letters = <<"b", "c", "n">>
    /\ rolls = <<Rolled(2, 2)>>
    /\ result = Ok(<<"B", "a", "c", "o", "n", "n">>)

\* A call of add_letters that rolled for its letter, its choice and its
\* wildcard on a name that has a character.
AddLettersCall ==
    /\ op = "add_letters"
    /\ name # <<>>
    /\ Len(rolls) >= 3

\* The flavor letter, the placement roll and the wildcard roll of a call
\* of add_letters.
FlavorLetter == mod_letters[rolls[1].value]
Placement == rolls[2].value
Wildcard == rolls[3].value

\* The string v is capitalized: it is the string s with its first
\* character uppercased and its other characters lowercased, so that no
\* character after the first is uppercase.
IsCapitalized(v, s) ==
    /\ Len(v) = Len(s)
    /\ \A i \in 1..Len(v) :
          /\ ToLower(v[i]) = ToLower(s[i])
          /\ IF i = 1 THEN ~IsLower(v[i]) ELSE ~IsUpper(v[i])

\* C15: add_letters with a placement roll of 1-5 (front) or 6-10 (back)
\* puts the flavor letter at that end of the case-folded name, beside
\* the end character when that is a vowel (length + 1), in its place
\* otherwise (same length); the other characters keep their order, and
\* the result is capitalized.
C15_EndPlacement ==
    (AddLettersCall /\ Placement <= 10) =>
        LET folded == Casefold(name)
            n == Len(name)
            front == Placement <= 5
            beside == folded[IF front THEN 1 ELSE n] \in vowels
            kept == IF beside THEN folded
                    ELSE IF front THEN SubSeq(folded, 2, n)
                    ELSE SubSeq(folded, 1, n - 1)
            placed == IF front THEN <<FlavorLetter>> \o kept
                      ELSE kept \o <<FlavorLetter>>
        IN  /\ Len(rolls) = 3
            /\ rolls[1].sides = Len(mod_letters)
            /\ result.status = "ok"
            /\ Len(result.value) = IF beside THEN n + 1 ELSE n
            /\ IsCapitalized(result.value, placed)

\* C15 witness: 'Adam' ends with a consonant, which the 'z' replaces.
C15_Witness ==
    /\ op = "add_letters"
    /\ name = Adam
    /\ mod_letters = ScifiLetters
    /\ rolls = <<Rolled(4, 4), Rolled(12, 6), Rolled(20, 1)>>
    /\ result = Ok(<<"A", "d", "a", "z">>)

\* The 1-based positions that a call of add_letters with a placement
\* roll of 11-12 rolled: the fourth roll when the wildcard roll is below
\* 20; when it is 20 the fourth roll is their number and the rolls that
\* follow are the positions.
RolledPositions ==
    IF Wildcard < 20
    THEN {rolls[4].value}
    ELSE {rolls[4 + k].value : k \in 1..rolls[4].value}

\* The case-folded name with the flavor letter at the rolled positions.
LetterAtRolled ==
    [i \in 1..Len(name) |->
        IF i \in RolledPositions THEN FlavorLetter ELSE Casefold(name)[i]]

\* The rolls after the third are over 1..len(name), and on a wildcard
\* roll of 20 the first of them counts the others.
PositionRollsWellFormed ==
    /\ Len(rolls) = IF Wildcard < 20 THEN 4 ELSE 4 + rolls[4].value
    /\ \A k \in 4..Len(rolls) :
          rolls[k].sides = Len(name) /\ rolls[k].value \in 1..Len(name)

\* C16 as stated: with a placement roll of 11-12 the result has the
\* length of the name, the flavor letter at exactly the rolled positions
\* and the case-folded original character at every other position.
C16_LetterAtRolledPositions ==
    (AddLettersCall /\ Placement >= 11) =>
        /\ result.status = "ok"
        /\ PositionRollsWellFormed
        /\ result.value = LetterAtRolled

\* C16: with a placement roll of 11-12 the result is the capitalized form
\* (first character uppercased, the others lowercased) of the case-folded
\* name with the flavor letter at every rolled position and the original
\* character at every other position: one position rolled when the
\* wildcard roll is below 20, and a rolled number 1..len(name) of
\* positions, repeats allowed, when it is 20.
C16_CapitalizedLetterAtRolled ==
    (AddLettersCall /\ Placement >= 11) =>
        /\ result.status = "ok"
        /\ PositionRollsWellFormed
        /\ IsCapitalized(result.value, LetterAtRolled)

\* C16 witness: 'Adam', the letter 'k', three positions rolled, 1, 3 and
\* 3 again: 'Kdkm'.
C16_Witness ==
    /\ op = "add_letters"
    /\ name = Adam
    /\ mod_letters = ScifiLetters
    /\ rolls = <<Rolled(4, 1), Rolled(12, 11), Rolled(20, 20),
                 Rolled(4, 3), Rolled(4, 1), Rolled(4, 3), Rolled(4, 3)>>
    /\ result = Ok(<<"K", "d", "k", "m">>)

\* The Base64 text, without padding, of the one byte of an ASCII
\* character: the character of the alphabet for its high six bits, then
\* the character for its low two bits followed by four zero bits.
UnpaddedBase64(c) ==
    LET byte == AsciiOf(c)
        high == CHOOSE h \in 0..63 : \E low \in 0..3 : byte = 4 * h + low
        low == byte - 4 * high
    IN  <<B64Alphabet[high + 1], B64Alphabet[16 * low + 1]>>

IsAlphanumeric(c) == IsCased(c) \/ c \in Chars(Digits)

\* C17: garble of a non-empty ASCII name makes one roll r over
\* 1..len(name) and returns the capitalized name[:r-1] + E + name[r:],
\* where E, the Base64 text of the byte name[r-1] without its padding, is
\* 2 to 4 alphanumeric characters; only the position rolled is replaced.
C17_GarbleReplacesRolled ==
    (op = "garble" /\ name # <<>>) =>
        /\ Len(rolls) = 1
        /\ rolls[1].sides = Len(name)
        /\ rolls[1].value \in 1..Len(name)
        /\ result.status = "ok"
        /\ LET r == rolls[1].value
               E == UnpaddedBase64(name[r])
           IN  /\ Len(E) \in 2..4
               /\ \A i \in 1..Len(E) : IsAlphanumeric(E[i])
               /\ IsCapitalized(result.value,
                                SubSeq(name, 1, r - 1) \o E
                                    \o SubSeq(name, r + 1, Len(name)))

\* C17 witness: 'Spam' with the 'p' rolled: 'cA' in its place, 'Scaam'
\* once capitalized.
C17_Witness ==
    /\ op = "garble"
    /\ name = CapSpam
    /\ rolls = <<Rolled(4, 2)>>
    /\ result = Ok(<<"S", "c", "a", "a", "m">>)

\* garble('Eggs') with the roll selecting index 0.
GarbleEggsCall ==
    /\ op = "garble"
    /\ name = CapEggs
    /\ rolls = <<Rolled(4, 1)>>

\* C18 as stated: garble('Eggs') with the roll selecting index 0 returns
\* 'Rg', as the Base64 encoding of 'E', followed by 'ggs'.
C18_EggsBeginsWithRg ==
    GarbleEggsCall => result = Ok(<<"R", "g", "g", "g", "s">>)

\* C18: the Base64 encoding of 'E' without padding is 'RQ', and
\* garble('Eggs') with the roll selecting index 0 returns it, capitalized
\* to 'Rq', followed by 'ggs': 'Rqggs'.
C18_EggsBeginsWithRq ==
    GarbleEggsCall =>
        /\ UnpaddedBase64("E") = <<"R", "Q">>
        /\ result = Ok(<<"R", "q", "g", "g", "s">>)

\* C18 witness: the call made, with its result.
C18_Witness ==
    /\ GarbleEggsCall
    /\ result.status = "ok"
    /\ SubSeq(result.value, 3, 5) = <<"g", "g", "s">>

\* C19: translate_characters returns the name, case-folded first when
\* casefold is true and as it is otherwise, with every character that is
\* a key of the map replaced by the map's character for it and every
\* other character left as it is, in one simultaneous pass: a character
\* that a replacement produced is not replaced again.
C19_SinglePassTranslation ==
    op = "translate_characters" =>
        LET source == IF casefold THEN Casefold(name) ELSE name
        IN  /\ result.status = "ok"
            /\ rolls = <<>>
            /\ Len(result.value) = Len(name)
            /\ \A i \in 1..Len(name) :
                  result.value[i] =
                      IF source[i] \in DOMAIN char_map
                      THEN char_map[source[i]]
                      ELSE source[i]

\* C19 witness: a map that swaps 'a' and 'b': the 'b' put for the 'a' is
\* a key, and stays; the 'E' is folded and is no key.
C19_Witness ==
    /\ op = "translate_characters"
    /\ name = <<"a", "b", "E">>
    /\ char_map = ("a" :> "b") @@ ("b" :> "a")
    /\ casefold
    /\ result = Ok(<<"b", "a", "e">>)

----------------------------------------------------------------------------
(* The case of the result of build_from_syllables. *)

\* The syllables that a call of build_from_syllables rolled, put together
\* as they are in the names selected.
ChosenSyllables ==
    Flatten([i \in 1..num_syllables |->
                SplitIntoSyllables(Selected(i), consonants, vowels)
                    [rolls[num_syllables + i].value]])

\* A call of build_from_syllables that chose one or more syllables.
SyllablesCall ==
    /\ op = "build_from_syllables"
    /\ names # <<>>
    /\ num_syllables >= 1

\* The characters of v after the first are those of chosen.
RestKept(v, chosen) ==
    /\ Len(v) = Len(chosen)
    /\ v[1] = ToUpper(chosen[1])
    /\ \A i \in 2..Len(v) : v[i] = chosen[i]

\* A character of v after the first is that of chosen, lowercased when it
\* follows a letter and uppercased when it does not.
RestTitleCased(v, chosen) ==
    /\ Len(v) = Len(chosen)
    /\ v[1] = ToUpper(chosen[1])
    /\ \A i \in 2..Len(v) :
          /\ IsCased(chosen[i - 1]) => v[i] = ToLower(chosen[i])
          /\ ~IsCased(chosen[i - 1]) => v[i] = ToUpper(chosen[i])

\* C22 as stated: build_from_syllables uppercases the first character of
\* the syllables put together and returns every other character as it is
\* in the syllables, whatever its case.
C22_RestUnchanged ==
    SyllablesCall =>
        /\ result.status = "ok"
        /\ RestKept(result.value, ChosenSyllables)

\* C22: build_from_syllables title-cases the syllables put together: the
\* first character is uppercased, and a character after the first is
\* lowercased when it follows a letter and uppercased when it does not.
C22_RestTitleCased ==
    SyllablesCall =>
        /\ result.status = "ok"
        /\ RestTitleCased(result.value, ChosenSyllables)

\* C22 witness: the syllable 'eB' of 'eBAc' comes back as 'Eb'.
C22_Witness ==
    /\ op = "build_from_syllables"
    /\ num_syllables = 1
    /\ names = PoolOf(<<MixedCase>>)
    /\ vowels = DefaultVowels
    /\ rolls = <<Rolled(1, 1), Rolled(2, 1)>>
    /\ result = Ok(<<"E", "b">>)

----------------------------------------------------------------------------
(* The run-length helper. *)

\* C26: for a non-empty string s and letters L, get_change_index returns
\* an index i, 1 <= i <= len(s), such that the characters s[1..i-1] are
\* all in L and either i = len(s) or s[i] is not in L (0-based, as in
\* the code); s[0] is in the run whether or not it is in L.
C26_ChangeIndexEndsRun ==
    (op = "get_change_index" /\ name # <<>>) =>
        LET i == result.value[1]
            L == Chars(mod_letters)
        IN  /\ result.status = "ok"
            /\ i >= 1
            /\ i <= Len(name)
            /\ \A k \in 1..(i - 1) : name[k + 1] \in L
            /\ i = Len(name) \/ name[i + 1] \notin L

\* C26 witness: 'bab' and the vowels: the 'b' at the start is no vowel
\* and is counted, the run ends before the second 'b'.
C26_Witness ==
    /\ op = "get_change_index"
    /\ name = <<"b", "a", "b">>
    /\ mod_letters = <<"a", "e">>
    /\ result = Ok(<<2>>)

----------------------------------------------------------------------------
(* The rolls of add_letters. *)

\* C27: add_letters on a name that has a character first rolls for the
\* flavor letter over 1..len(letters), then for the placement over 1..12,
\* then for the wildcard over 1..20, used or not; after these it makes no
\* roll on a placement of 1-10, one roll on a placement of 11-12 with a
\* wildcard below 20, and on a placement of 11-12 with a wildcard of 20 a
\* roll of a count c and then c rolls.
C27_RollOrder ==
    (op = "add_letters" /\ name # <<>>) =>
        /\ Len(rolls) >= 3
        /\ rolls[1].sides = Len(mod_letters)
        /\ rolls[1].value \in 1..Len(mod_letters)
        /\ rolls[2].sides = 12
        /\ rolls[3].sides = 20
        /\ Len(rolls) =
              IF rolls[2].value <= 10 THEN 3
              ELSE IF rolls[3].value < 20 THEN 3 + 1
              ELSE 3 + 1 + rolls[4].value

\* C27 witness: a placement of 12 and a wildcard of 20 on a name of two
\* characters: a count of 2 and two positions.
C27_Witness ==
    /\ op = "add_letters"
    /\ name = <<"a", "b">>
    /\ mod_letters = ScifiLetters
    /\ rolls = <<Rolled(4, 2), Rolled(12, 12), Rolled(20, 20),
                 Rolled(2, 2), Rolled(2, 1), Rolled(2, 1)>>
    /\ result = Ok(<<"Q", "b">>)

----------------------------------------------------------------------------
(* Properties of add_punctuation. *)

\* The 0-based index at which a call of add_punctuation put its mark: the
\* index given, or the one rolled after the mark.
InsertionPoint ==
    IF punct_index = <<>> THEN rolls[2].value - 1 ELSE punct_index[1]

\* The string v is the name with the mark of the first roll put in at the
\* 0-based index i, the character at each of the 0-based positions in
\* raised uppercased, and every other character as it is.
MarkedAt(v, i, raised) ==
    /\ Len(v) = Len(name) + 1
    /\ v[i + 1] = punctuation[rolls[1].value]
    /\ \A k \in 0..(Len(name) - 1) :
          v[IF k < i THEN k + 1 ELSE k + 2] =
              IF k \in raised THEN ToUpper(name[k + 1]) ELSE name[k + 1]

\* The position after the mark, when asked for and when there is one.
RaisedAfter == IF cap_after THEN {InsertionPoint} ELSE {}

\* C21 as stated: add_punctuation puts one mark in at the index given or
\* rolled, uppercases the character immediately before the mark when
\* cap_before is true and the one immediately after it when cap_after is
\* true, and changes no other character.
C21_CapsBesideMark ==
    op = "add_punctuation" =>
        /\ result.status = "ok"
        /\ MarkedAt(result.value, InsertionPoint,
                    RaisedAfter \cup
                    (IF cap_before /\ InsertionPoint > 0
                     THEN {InsertionPoint - 1} ELSE {}))

\* C21: add_punctuation, on a name of lowercase letters, rolls for the
\* mark and then, if no index is given, for the index; it puts the one
\* mark in at the index (before the name when the index is 0), uppercases
\* the first character of the name, when it is before the mark and
\* cap_before is true, and the character immediately after the mark when
\* cap_after is true, and changes no other character.
C21_CapsFirstAndAfterMark ==
    op = "add_punctuation" =>
        /\ result.status = "ok"
        /\ Len(rolls) = IF punct_index = <<>> THEN 2 ELSE 1
        /\ MarkedAt(result.value, InsertionPoint,
                    RaisedAfter \cup
                    (IF cap_before /\ InsertionPoint > 0 THEN {0} ELSE {}))

\* C21 witness: 'spam' with the index 3 given and the third mark rolled:
\* 'Spa.M', the 'a' before the mark left as it is.
C21_Witness ==
    /\ op = "add_punctuation"
    /\ name = Spam
    /\ punct_index = <<3>>
    /\ cap_before
    /\ cap_after
    /\ rolls = <<Rolled(3, 3)>>
    /\ result = Ok(<<"S", "p", "a", ".", "M">>)

----------------------------------------------------------------------------
(* Configuration: init.get_config and init.get_db. A path is the sequence *)
(* of its parts; no path given is the empty sequence.                     *)

None == <<>>

DB_NAME == "names.db"

\* Path.cwd()
Cwd == <<"cwd">>

\* get_default_path(): the directory of the data of the package.
DefaultPath == <<"mkname", "data">>

\* get_default_db()
DefaultDb == Append(DefaultPath, DB_NAME)

\* The file names searched for and whether each needs Python 3.11.
CONF_NAMES ==
    << [filename |-> "setup.cfg", toml |-> FALSE],
       [filename |-> "pyproject.toml", toml |-> TRUE],
       [filename |-> "mkname.cfg", toml |-> FALSE],
       [filename |-> "mkname.toml", toml |-> TRUE] >>

\* The default configuration: every key is set and db_path is empty.
DefaultConfig ==
    [mkname |-> [consonants |-> "bcdfghjklmnpqrstvwxz",
                 db_path |-> "",
                 punctuation |-> "'-.?!/:@+|",
                 scifi_letters |-> "kqxz",
                 vowels |-> "aeiouy"]]

RECURSIVE Resolve(_)
\* The file a path leads to: a part followed by '..' leads nowhere new.
\* Two paths are the same file when they resolve to the same path, while
\* Path.__eq__ compares the parts as written.
Resolve(path) ==
    IF \E i \in 1..(Len(path) - 1) : path[i] # ".." /\ path[i + 1] = ".."
    THEN LET i == CHOOSE j \in 1..(Len(path) - 1) :
                      path[j] # ".." /\ path[j + 1] = ".."
         IN  Resolve(SubSeq(path, 1, i - 1) \o SubSeq(path, i + 2, Len(path)))
    ELSE path

\* path.is_file(), path.is_dir() and path.exists()
IsFile(path) ==
    Resolve(path) \in DOMAIN files \/ Resolve(path) \in DOMAIN tables
IsDir(path) == Resolve(path) \in dirs
Exists(path) == IsFile(path) \/ IsDir(path)

\* search_path.suffix == '.toml'
IsToml(path) ==
    path # <<>> /\ path[Len(path)] \in {"pyproject.toml", "mkname.toml"}

\* The names of CONF_NAMES this Python supports, each under a directory.
Supported == SelectSeq(CONF_NAMES, LAMBDA c : toml_ok \/ ~c.toml)
Under(dir) == [i \in 1..Len(Supported) |-> Append(dir, Supported[i].filename)]

\* build_search_paths(path)
BuildSearchPaths(path) ==
    Under(Cwd) \o (IF path # None /\ IsFile(path) THEN <<path>>
                   ELSE IF path # None /\ IsDir(path) THEN Under(path)
                   ELSE <<>>)

\* read_config(path) and read_toml(path): the sections of the file that
\* are sections of mkname.
ReadConfig(path) ==
    [s \in DOMAIN files[path] \cap {"mkname", "mkname_files"} |->
        files[path][s]]

\* The old get_config: config.update(new), a section of the file replaces
\* the whole section.
ReplaceSection(old, new) == new

\* config[key].update(new[key])
Update(old, new) ==
    [k \in DOMAIN old \cup DOMAIN new |->
        IF k \in DOMAIN new THEN new[k] ELSE old[k]]

\* for key in new: config.setdefault(key, dict()); config[key].update(...)
Merge(config, new) ==
    [s \in DOMAIN config \cup DOMAIN new |->
        IF s \notin DOMAIN new THEN config[s]
        ELSE Update(IF s \in DOMAIN config THEN config[s] ELSE <<>>, new[s])]

\* The outcome of get_config: the configuration and the files read.
Loaded(e, config, log) == [status |-> e, value |-> config, log |-> log]

RECURSIVE LoadEach(_, _, _)
\* The loop of get_config over the search paths.
LoadEach(paths, config, log) ==
    IF paths = <<>> THEN Loaded("ok", config, log)
    ELSE IF ~Exists(Head(paths)) THEN LoadEach(Tail(paths), config, log)
    ELSE IF IsToml(Head(paths)) /\ ~toml_ok
    THEN Loaded("UnsupportedPythonVersionError", <<>>, log)
    ELSE LoadEach(Tail(paths), Merge(config, ReadConfig(Head(paths))),
                  Append(log, Head(paths)))

\* get_config(path)
GetConfig(path) ==
    IF path # None /\ ~Exists(path)
    THEN Loaded("ConfigFileDoesNotExistError", <<>>, <<>>)
    ELSE LoadEach(BuildSearchPaths(path), DefaultConfig, <<>>)

\* The database of a directory and the paths the configuration files name.
HomeDir == <<"home">>
HomeDb == Append(HomeDir, DB_NAME)
CwdDb == Append(Cwd, DB_NAME)
WorkDb == <<"work", "names.db">>

\* Path(text) for the values of db_path in the files below.
PathOf(text) ==
    CASE text = "/work/names.db" -> WorkDb
      [] text = "/cwd/names.db" -> CwdDb
      [] text = "/home/names.db" -> HomeDb

\* The path get_db settles on once the configuration is read, the
\* configuration file looked at before the path given.
ChooseConfigFirst(path, cfg_path) ==
    IF cfg_path # "" THEN PathOf(cfg_path)
    ELSE IF path # None
    THEN (IF IsDir(path) THEN Append(path, DB_NAME) ELSE path)
    ELSE IF IsFile(CwdDb) THEN CwdDb
    ELSE DefaultDb

\* The path get_db settles on once the configuration is read.
Choose(path, cfg_path) ==
    IF path # None
    THEN (IF IsDir(path) THEN Append(path, DB_NAME) ELSE path)
    ELSE IF cfg_path # "" THEN PathOf(cfg_path)
    ELSE IF IsFile(CwdDb) THEN CwdDb
    ELSE DefaultDb

\* get_db(path, conf_path)
GetDb(path, conf_path) ==
    LET config == GetConfig(conf_path)
    IN  IF config.status # "ok" THEN Raise(config.status)
        ELSE LET db_path == Choose(path, config.value["mkname"]["db_path"])
             IN  IF IsFile(db_path) THEN Ok(db_path)
                 ELSE Raise("NotADatabaseError")

\* The configuration files tried: three in the current directory, one
\* given by its path and one in a directory given.
GivenFile == <<"etc", "spam.cfg">>
GivenDir == <<"etc", "conf">>
MissingFile == <<"etc", "none.cfg">>
SetupCfg == Append(Cwd, "setup.cfg")
MknameCfg == Append(Cwd, "mkname.cfg")
MknameToml == Append(Cwd, "mkname.toml")
DirCfg == Append(GivenDir, "mkname.cfg")

\* What each configuration file holds when it is there.
ContentAt(path) ==
    CASE path = SetupCfg ->
            [metadata |-> [name |-> "spam"],
             mkname |-> [consonants |-> "bcd", db_path |-> "/work/names.db"]]
      [] path = MknameCfg -> [mkname |-> [consonants |-> "xyz"]]
      [] path = MknameToml ->
            [mkname |-> [vowels |-> "aei", db_path |-> "/cwd/names.db"]]
      [] path = GivenFile ->
            [mkname |-> [consonants |-> "pqr"],
             mkname_files |-> [default_db |-> "names.db"]]
      [] path = DirCfg -> [mkname |-> [db_path |-> "/home/names.db"]]

\* The directories there are.
Dirs == {Cwd, HomeDir, <<"etc">>, GivenDir, <<"work">>, DefaultPath}

\* The paths given to get_config and to get_db.
ConfArgs == {None, GivenFile, GivenDir, MknameToml, MissingFile}
DbArgs == {None, HomeDb, HomeDir, WorkDb}

\* The variables of the operations on names when none of them is called.
NamesIdle ==
    /\ mod_name = <<>>
    /\ root_name = <<>>
    /\ name = <<>>
    /\ names = <<>>
    /\ num_syllables = 0
    /\ consonants = DefaultConsonants
    /\ vowels = DefaultVowels
    /\ mod_letters = <<>>
    /\ char_map = [c \in {} |-> c]
    /\ casefold = TRUE
    /\ punctuation = <<>>
    /\ cap_before = TRUE
    /\ cap_after = TRUE
    /\ punct_index = <<>>
    /\ rolls = <<>>

\* Before get_config or get_db is called: some of the configuration files
\* and some of the databases are there.
ConfigInit ==
    /\ op = "init"
    /\ result = NoResult
    /\ NamesIdle
    /\ \E present \in
            SUBSET {SetupCfg, MknameCfg, MknameToml, GivenFile, DirCfg} :
        files = [path \in present |-> ContentAt(path)]
    /\ dirs = Dirs
    /\ \E present \in SUBSET {DefaultDb, CwdDb, HomeDb, WorkDb} :
        tables = [path \in present |-> <<>>]
    /\ toml_ok \in BOOLEAN
    /\ path_arg = None
    /\ conf_arg = None
    /\ loaded = <<>>
    /\ connections = <<>>
    /\ prior = <<>>
    /\ args = <<>>
    /\ calls = 0

\* init.get_config(path)
DoGetConfig ==
    /\ op = "init"
    /\ \E path \in ConfArgs :
       \E call \in {GetConfig(path)} :
        /\ op' = "get_config"
        /\ conf_arg' = path
        /\ loaded' = call.log
        /\ result' = [status |-> call.status, value |-> call.value]
        /\ UNCHANGED <<files, dirs, tables, toml_ok, path_arg>>
        /\ UNCHANGED <<name_vars, store_vars>>

\* init.get_db(path, conf_path)
DoGetDb ==
    /\ op = "init"
    /\ \E path \in DbArgs, conf_path \in ConfArgs :
        /\ op' = "get_db"
        /\ path_arg' = path
        /\ conf_arg' = conf_path
        /\ loaded' = GetConfig(conf_path).log
        /\ result' = GetDb(path, conf_path)
        /\ UNCHANGED <<files, dirs, tables, toml_ok>>
        /\ UNCHANGED <<name_vars, store_vars>>

ConfigNext ==
    \/ DoGetConfig
    \/ DoGetDb

ConfigSpec == ConfigInit /\ [][ConfigNext]_vars

\* The positions in the files read of those that set a key of a section.
Setters(section, key) ==
    {i \in 1..Len(loaded) :
        /\ section \in DOMAIN files[loaded[i]]
        /\ key \in DOMAIN files[loaded[i]][section]}

\* The last of a non-empty set of positions.
Last(positions) == CHOOSE i \in positions : \A j \in positions : j <= i

\* The value of a key: that of the last file read that sets it, or the
\* default when no file read sets it.
Setting(section, key) ==
    IF Setters(section, key) = {} THEN DefaultConfig[section][key]
    ELSE files[loaded[Last(Setters(section, key))]][section][key]

Explicit == IF IsDir(path_arg) THEN Append(path_arg, DB_NAME) ELSE path_arg

\* C23: the database get_db returns is the one of the path given when a
\* path is given; else the one of db_path when the configuration sets it;
\* else names.db of the current directory when that file is there; else
\* the default database.
C23_DbPriority ==
    (op = "get_db" /\ result.status = "ok") =>
        result.value =
            IF path_arg # None THEN Explicit
            ELSE IF Setting("mkname", "db_path") # ""
            THEN PathOf(Setting("mkname", "db_path"))
            ELSE IF IsFile(CwdDb) THEN CwdDb
            ELSE DefaultDb

\* C23 witness: a directory is given while the configuration sets a
\* db_path and the current directory has a names.db: the database is the
\* names.db of the directory given.
C23_Witness ==
    /\ op = "get_db"
    /\ result = Ok(HomeDb)
    /\ path_arg = HomeDir
    /\ Setting("mkname", "db_path") = "/work/names.db"
    /\ IsFile(WorkDb)
    /\ IsFile(CwdDb)

----------------------------------------------------------------------------
(* The names database: db.py and tools.import_. The rows of a table are   *)
(* a function from the ids to the names stored under them.                *)

\* How many calls on a database a behaviour makes.
MaxCalls == 2

\* model.Name: the id and the name; the other fields are carried along.
Name(id, text) == [id |-> id, name |-> text]

\* The query of get_max_id: the highest id, or 0 when there is no row.
MaxId(rows) ==
    IF DOMAIN rows = {} THEN 0
    ELSE CHOOSE i \in DOMAIN rows : \A j \in DOMAIN rows : j <= i

\* reindex(names, offset)
Reindex(ns, offset) ==
    [i \in 1..Len(ns) |-> Name(i - 1 + offset, ns[i].name)]

\* read_csv(path): the names with the ids of the file.
ReadCsv(file) == file.rows

\* read_name_census and read_us_census: the ids count the rows from 0.
ReadCensus(file) == Reindex(file.rows, 0)

\* connect_db(path), by the caller or by a wrapper
Connect(cs, path, by) ==
    Append(cs, [path |-> Resolve(path), by |-> by, open |-> TRUE])

\* What a wrapped function is given: a path, a connection or nothing.
Given(kind, path, con) == [kind |-> kind, path |-> path, con |-> con]

\* The connection a wrapper works with.
Opened(e, cs, con) == [status |-> e, connections |-> cs, con |-> con]

\* The head of the wrappers of makes_connection and protects_connection:
\* a path is connected to, a connection is taken as it is, and with
\* neither the first connects to the database of get_db() and the second
\* raises.
OpenFor(tbls, cs, given, protects) ==
    CASE given.kind = "path" ->
            IF Resolve(given.path) \in DOMAIN tbls
            THEN Opened("ok", Connect(cs, given.path, "wrapper"), Len(cs) + 1)
            ELSE Opened("ValueError", cs, 0)
      [] given.kind = "connection" -> Opened("ok", cs, given.con)
      [] given.kind = "none" ->
            IF protects THEN Opened("DefaultDatabaseWriteError", cs, 0)
            ELSE LET found == GetDb(None, None)
                 IN  IF found.status # "ok" THEN Opened(found.status, cs, 0)
                     ELSE Opened("ok", Connect(cs, found.value, "wrapper"),
                                 Len(cs) + 1)

\* The tail of both wrappers: disconnect_db(con), only for a connection
\* made from a path given.
CloseFor(cs, given, con) ==
    IF given.kind = "path" THEN [cs EXCEPT ![con].open = FALSE] ELSE cs

\* The outcome of a call on a database.
Stored(e, v, tbls, cs) ==
    [status |-> e, value |-> v, tables |-> tbls, connections |-> cs]

\* db.get_max_id(given_con), wrapped by makes_connection
GetMaxId(tbls, cs, given) ==
    LET o == OpenFor(tbls, cs, given, FALSE)
    IN  IF o.status # "ok" THEN Stored(o.status, <<>>, tbls, o.connections)
        ELSE Stored("ok", <<MaxId(tbls[o.connections[o.con].path])>>, tbls,
                    CloseFor(o.connections, given, o.con))

\* The outcome of an insert: the rows committed.
Added(e, rows) == [status |-> e, rows |-> rows]

\* db.add_name_to_db(con, name, update): the insert is committed; an id
\* already there is updated and committed, or raises.
AddNameToDb(rows, n, update) ==
    IF n.id \notin DOMAIN rows THEN Added("ok", rows @@ (n.id :> n.name))
    ELSE IF update THEN Added("ok", [rows EXCEPT ![n.id] = n.name])
    ELSE Added("IDCollisionError", rows)

RECURSIVE AddEach(_, _, _)
\* The loop of add_names_to_db: one add_name_to_db after the other.
AddEach(rows, ns, update) ==
    IF ns = <<>> THEN Added("ok", rows)
    ELSE LET one == AddNameToDb(rows, Head(ns), update)
         IN  IF one.status # "ok" THEN one
             ELSE AddEach(one.rows, Tail(ns), update)

\* db.add_names_to_db(given_con, names, update), wrapped by
\* protects_connection: an exception leaves the wrapper before the
\* connection is disconnected.
AddNamesToDb(tbls, cs, given, ns, update) ==
    LET o == OpenFor(tbls, cs, given, TRUE)
    IN  IF o.status # "ok" THEN Stored(o.status, <<>>, tbls, o.connections)
        ELSE LET path == o.connections[o.con].path
                 added == AddEach(tbls[path], ns, update)
                 after == [tbls EXCEPT ![path] = added.rows]
             IN  IF added.status # "ok"
                 THEN Stored(added.status, <<>>, after, o.connections)
                 ELSE Stored("ok", <<>>, after,
                             CloseFor(o.connections, given, o.con))

\* The formats import_ knows.
Formats == {"csv", "census.name", "census.gov"}

\* tools.import_(dst_path, src_path, format)
Import(tbls, cs, dst, src, format) ==
    IF dst = DefaultDb
    THEN Stored("DefaultDatabaseWriteError", <<>>, tbls, cs)
    ELSE IF format \notin Formats
    THEN Stored("InvalidImportFormatError", <<>>, tbls, cs)
    ELSE IF ~src.exists
    THEN Stored("PathDoesNotExistError", <<>>, tbls, cs)
    ELSE LET read == IF format = "csv" THEN ReadCsv(src)
                     ELSE ReadCensus(src)
             made == IF Resolve(dst) \in DOMAIN tbls THEN tbls
                     ELSE tbls @@ (Resolve(dst) :> <<>>)
             top == GetMaxId(made, cs, Given("path", dst, 0))
             i == top.value[1]
             ns == IF i # 0 THEN Reindex(read, i + 1) ELSE read
         IN  AddNamesToDb(made, top.connections, Given("path", dst, 0), ns,
                          FALSE)

\* The default database written another way: the same file, other parts.
DefaultAlias == DefaultPath \o <<"..", "data", DB_NAME>>

\* The rows of the default database.
DefaultRows == 1 :> "Liam"

\* The files imported: one name, two names, and a file that is not there.
OneName == [exists |-> TRUE, rows |-> <<Name(1, "spam")>>]
TwoNames == [exists |-> TRUE, rows |-> <<Name(1, "spam"), Name(2, "eggs")>>]
NoFile == [exists |-> FALSE, rows |-> <<>>]

\* The sources and formats import_ is called with.
Imports ==
    { <<OneName, "csv">>, <<TwoNames, "csv">>, <<OneName, "census.name">>,
      <<TwoNames, "census.gov">>, <<OneName, "tsv">>, <<NoFile, "csv">> }

\* The destinations import_ is called with.
Destinations == {DefaultDb, DefaultAlias, HomeDb, WorkDb}

\* The names add_names_to_db is called with.
NameLists ==
    { TwoNames.rows, <<Name(2, "eggs"), Name(1, "ham")>>,
      <<Name(3, "bacon")>> }

\* The connections the caller has made and still holds.
Held == {i \in 1..Len(connections) : connections[i].by = "caller"}

\* What the wrapped functions are given.
Givens ==
    {Given("path", HomeDb, 0), Given("path", WorkDb, 0), Given("none", None, 0)}
        \cup {Given("connection", None, i) : i \in Held}

\* Before any call on a database: the default database and a user
\* database, with no row or with one, are there and no configuration
\* file is.
StoreInit ==
    /\ op = "init"
    /\ result = NoResult
    /\ NamesIdle
    /\ files = <<>>
    /\ dirs = Dirs
    /\ \E rows \in {<<>>, 1 :> "spam"} :
        tables = (DefaultDb :> DefaultRows) @@ (HomeDb :> rows)
    /\ toml_ok = TRUE
    /\ path_arg = None
    /\ conf_arg = None
    /\ loaded = <<>>
    /\ connections = <<>>
    /\ prior = [tables |-> <<>>, connections |-> <<>>]
    /\ args = <<>>
    /\ calls = 0

\* What every call on a database does to the state.
Called(fn, given, call) ==
    /\ op' = fn
    /\ args' = given
    /\ prior' = [tables |-> tables, connections |-> connections]
    /\ tables' = call.tables
    /\ connections' = call.connections
    /\ result' = [status |-> call.status, value |-> call.value]
    /\ calls' = calls + 1
    /\ UNCHANGED <<files, dirs, toml_ok, path_arg, conf_arg, loaded>>
    /\ UNCHANGED name_vars

\* The caller's own db.connect_db(path) on the user database.
DoConnectDb ==
    /\ calls < MaxCalls
    /\ Held = {}
    /\ Called("connect_db", [path |-> HomeDb],
              Stored("ok", <<>>, tables,
                     Connect(connections, HomeDb, "caller")))

\* db.get_max_id(given_con)
DoGetMaxId ==
    /\ calls < MaxCalls
    /\ \E given \in Givens :
        Called("get_max_id", [given |-> given],
               GetMaxId(tables, connections, given))

\* db.add_names_to_db(given_con, names, update)
DoAddNamesToDb ==
    /\ calls < MaxCalls
    /\ \E given \in Givens, ns \in NameLists, update \in BOOLEAN :
        Called("add_names_to_db",
               [given |-> given, names |-> ns, update |-> update],
               AddNamesToDb(tables, connections, given, ns, update))

\* tools.import_(dst_path, src_path, format)
DoImport ==
    /\ calls < MaxCalls
    /\ \E dst \in Destinations, from \in Imports :
        Called("import_", [dst |-> dst, src |-> from[1], format |-> from[2]],
               Import(tables, connections, dst, from[1], from[2]))

StoreNext ==
    \/ DoConnectDb
    \/ DoGetMaxId
    \/ DoAddNamesToDb
    \/ DoImport

StoreSpec == StoreInit /\ [][StoreNext]_vars

\* The rows of the default database.
DefaultTable(tbls) == tbls[DefaultDb]

\* C25 as stated: an import_ whose destination is the default database
\* raises DefaultDatabaseWriteError, connects to no database and leaves the
\* rows of every database, those of the default database among them, as
\* they were.
C25_DefaultNeverWritten ==
    (op = "import_" /\ Resolve(args.dst) = DefaultDb) =>
        /\ result.status = "DefaultDatabaseWriteError"
        /\ connections = prior.connections
        /\ tables = prior.tables
        /\ DefaultTable(tables) = DefaultRows

\* The connections the last call has made.
MadeByCall ==
    {i \in (Len(prior.connections) + 1)..Len(connections) :
        connections[i].by = "wrapper"}

\* C28 as stated: when get_max_id, wrapped by makes_connection, is over,
\* every connection its wrapper made is closed and every connection of
\* the caller is open.
C28_WrapperClosesItsOwn ==
    op = "get_max_id" =>
        /\ \A i \in MadeByCall : ~connections[i].open
        /\ \A i \in Held : connections[i].open

\* The destination of the import_ called and its rows before and after.
Destination == Resolve(args.dst)
RowsBefore == prior.tables[Destination]
RowsAfter == tables[Destination]

\* An import_ into a user database that is there and has rows, from a
\* file that is there and in a format known.
ImportIntoNonEmpty ==
    /\ op = "import_"
    /\ Destination # DefaultDb
    /\ args.src.exists
    /\ args.format \in Formats
    /\ Destination \in DOMAIN prior.tables
    /\ DOMAIN RowsBefore # {}

\* C29 as stated: an import_ into a non-empty user database raises no id
\* collision, leaves every row stored as it was, and stores the k-th name
\* of the file under the highest id stored plus k.
C29_ImportedAboveStored ==
    ImportIntoNonEmpty =>
        /\ result.status = "ok"
        /\ \A id \in DOMAIN RowsBefore :
            id \in DOMAIN RowsAfter /\ RowsAfter[id] = RowsBefore[id]
        /\ DOMAIN RowsAfter =
            DOMAIN RowsBefore
                \cup {MaxId(RowsBefore) + k : k \in 1..Len(args.src.rows)}
        /\ \A k \in 1..Len(args.src.rows) :
            RowsAfter[MaxId(RowsBefore) + k] = args.src.rows[k].name

\* C30 as stated: when add_names_to_db raises an id collision, the rows of
\* every database are those of before the call.
C30_AllOrNothing ==
    (op = "add_names_to_db" /\ result.status = "IDCollisionError") =>
        tables = prior.tables

============================================================================
